---- MODULE Spec2Model ----
(***************************************************************************)
(* Model of the Gthulhu scheduler plugins (github.com/Gthulhu/plugin):     *)
(* SimplePlugin (plugin/simple/simple.go, weighted-vtime and FIFO modes)   *)
(* and GthulhuPlugin (plugin/gthulhu/gthulhu.go, deadline min-heap with    *)
(* strategy overrides).  One policy instance is made by its constructor,   *)
(* as the tests of the packages make it, and is then driven by Drain /     *)
(* Select calls of the dispatch loop.  The factories of the registry, and  *)
(* the strategy fetcher the factory of mode "gthulhu" starts, have         *)
(* specifications of their own.                                            *)
(*                                                                         *)
(* uint64 fields are modelled as WordBits-bit unsigned integers (TLC's     *)
(* integers are 32 bits wide); every arithmetic step of the code wraps     *)
(* modulo 2^WordBits where the Go code wraps modulo 2^64.  The width holds *)
(* the values the inputs of the model produce, so none of them wraps.      *)
(***************************************************************************)
EXTENDS Integers, Sequences, FiniteSets, Bags, TLC

VARIABLES
    mode,      \* the policy of the instance, by the mode it is registered under
    s,         \* the SimplePlugin instance (receiver s of simple.go)
    g,         \* the GthulhuPlugin instance (receiver g of gthulhu.go)
    admitted,  \* history: the number of tasks admitted by Drain (addresses 1..admitted)
    selected,  \* history: the addresses returned by Select, in order
    strategy,  \* history: the addresses admitted under a strategy (applied)
               \*   and under a strategy with the priority flag (priority)
    ret,       \* the last Drain or Select call: its return value, the entry it
               \*   removed, the pool count before it, what it did at the source;
               \*   in the specifications of the registry, the last call of the
               \*   registry or the calls each goroutine is in
    refresh,   \* the goroutine started by StartStrategyFetcher: where it is,
               \*   what its fetch returned, the map it is building
    ctx,       \* the context passed to StartStrategyFetcher
    ticker,    \* the time.Ticker of StartStrategyFetcher
    strategyMu,\* g.strategyMu: the goroutine holding it for writing, and the
               \*   goroutines holding it for reading
    poolMu,    \* g.poolMu: the goroutine holding it
    dispatch,  \* the dispatch goroutine, when it is inside a call that the
               \*   model takes in more than one step
    observer,  \* a second goroutine calling GetPoolCount: its last read
    registry,  \* pluginRegistry of the registry package, with the history of
               \*   the registrations that succeeded and, with concurrent
               \*   callers, registryMutex
    inst       \* the memory of a process that creates several policy instances

\* the state outside the dispatch loop of one instance
background ==
    <<refresh, ctx, ticker, strategyMu, poolMu, dispatch, observer, registry, inst>>

vars == <<mode, s, g, admitted, selected, strategy, ret, background>>

----------------------------------------------------------------------------
(* Bounds of the model *)

\* width of the modelled unsigned integers (uint64 in the source)
WordBits == 29

\* length of the heap array; 4096 in the source (sched.go:22), scaled down
taskPoolSize == 3

\* number of tasks admitted over one run of the model
MaxAdmitted == 3

\* number of strategies in one UpdateStrategyMap call
MaxStrategies == 1

Modulus == 2 ^ WordBits

\* width of the int32 key of the strategy map in the model
PidBits == 8

----------------------------------------------------------------------------
(* Unsigned arithmetic *)

U64Add(a, b) == (a + b) % Modulus

U64Sub(a, b) == (a - b + Modulus) % Modulus

\* a * b modulo Modulus, by doubling, so that no step leaves TLC's integers
RECURSIVE U64Mul(_, _)
U64Mul(a, b) ==
    IF b = 0 THEN 0
    ELSE LET half == U64Mul(a, b \div 2)
         IN  U64Add(U64Add(half, half), IF b % 2 = 1 THEN a % Modulus ELSE 0)

\* a faulty saturatingSub: the subtraction wraps
saturatingSub_Wrapping(a, b) == U64Sub(a, b)

\* simple.go:258 and gthulhu.go:185
saturatingSub(a, b) == IF a > b THEN a - b ELSE 0

----------------------------------------------------------------------------
(* models.QueuedTask and the task source *)

\* The fields the policies read.  addr stands for the identity of the
\* QueuedTask variable a pool entry points to (0: the nil pointer).
QueuedTask(addr, Pid, Vtime, StartTs, StopTs, Weight, Tgid) ==
    [addr |-> addr, Pid |-> Pid, Vtime |-> Vtime, StartTs |-> StartTs,
     StopTs |-> StopTs, Weight |-> Weight, Tgid |-> Tgid]

\* a nil *models.QueuedTask
NilQueuedTask == QueuedTask(0, 0, 0, 0, 0, 0, 0)

Pids == {1, 2}

InvalidPids == {0}

Vtimes == {0, 6000000}

StartTss == {1000, 1500}

StopTss == {2000}

Weights == {100}

\* a task as the dispatch loop hands it out (Tgid = Pid: it leads its group)
SourceTask(p, v, a, b, w) == QueuedTask(0, p, v, a, b, w, p)

\* the tasks the source can hand out: a first task and the tasks that differ
\* from it in one field of the ordering (Pid, Vtime, StartTs)
ValidTasks ==
    { t \in { SourceTask(p, v, a, b, w) :
                p \in Pids, v \in Vtimes, a \in StartTss, b \in StopTss,
                w \in Weights } :
        Cardinality({ f \in {"Pid", "Vtime", "StartTs"} :
                        t[f] # SourceTask(1, 0, 1000, 2000, 100)[f] }) <= 1 }

\* a task the source marks with a non-positive Pid other than the sentinel
InvalidTasks == { SourceTask(p, 0, 0, 0, 100) : p \in InvalidPids }

SourceTasks == ValidTasks \cup InvalidTasks

\* the queues of at most n of the given tasks
SourcesOf(tasks, n) == UNION { [1..k -> tasks] : k \in 0..n }

\* the queues the source can hold when Drain is called
Sources(n) == SourcesOf(SourceTasks, n)

\* Sched.DequeueTask: the next task of the source, or Pid = -1 when it is empty
DequeueTask(source) ==
    IF source = <<>>
    THEN [task |-> [NilQueuedTask EXCEPT !.Pid = -1], rest |-> <<>>]
    ELSE [task |-> Head(source), rest |-> Tail(source)]

----------------------------------------------------------------------------
(* SimplePlugin, plugin/simple/simple.go *)

sliceDefault == 5000 * 100

\* the values of config.Scheduler.SliceNsDefault (0: not configured)
SliceNsConfigs == {0}

NewSimplePlugin(fifoMode) ==
    [fifoMode |-> fifoMode, sliceDefault |-> sliceDefault, taskPool |-> <<>>,
     vtimeNow |-> 1, localQueueCount |-> 0, globalQueueCount |-> 0]

SetSliceDefault(sp, slice) == [sp EXCEPT !.sliceDefault = slice]

SetMode(sp, fifoMode) == [sp EXCEPT !.fifoMode = fifoMode]

\* what GetStats returns
GetStats(sp) == <<sp.localQueueCount, sp.globalQueueCount>>

ResetStats(sp) == [sp EXCEPT !.localQueueCount = 0, !.globalQueueCount = 0]

\* the registered factories "simple" and "simple-fifo" (simple.go:13-35)
SimpleFactory(fifoMode, sliceNsDefault) ==
    IF sliceNsDefault > 0
    THEN SetSliceDefault(NewSimplePlugin(fifoMode), sliceNsDefault)
    ELSE NewSimplePlugin(fifoMode)

\* a faulty DetermineTimeSlice: the slice is shared among the waiting tasks
Simple_DetermineTimeSlice_Shared(sp, task) ==
    sp.sliceDefault \div (Len(sp.taskPool) + 1)

\* DetermineTimeSlice of SimplePlugin
Simple_DetermineTimeSlice(sp, task) == sp.sliceDefault

\* SelectCPU of SimplePlugin, given what sched.DefaultSelectCPU(task) would
\* return: the error and the CPU it returns
Simple_SelectCPU(sp, default, task) == [err |-> "nil", cpu |-> 2 ^ 20]

\* a faulty lessTask: the Timestamp tie-break is left out
lessTask_NoTimestamp(a, b) ==
    IF a.VTime # b.VTime THEN a.VTime < b.VTime
    ELSE a.QueuedTask.Pid < b.QueuedTask.Pid

Simple_enqueueTask(sp, queuedTask) ==
    LET clamp == saturatingSub(sp.vtimeNow, sp.sliceDefault)
        vtime1 == IF ~sp.fifoMode /\ queuedTask.Vtime < clamp
                  THEN clamp ELSE queuedTask.Vtime
        vtime2 == IF vtime1 = 0 THEN 1 ELSE vtime1
    IN  [QueuedTask |-> queuedTask, VTime |-> vtime2,
         Timestamp |-> queuedTask.StartTs]

lessTask(a, b) ==
    IF a.VTime # b.VTime THEN a.VTime < b.VTime
    ELSE IF a.Timestamp # b.Timestamp THEN a.Timestamp < b.Timestamp
    ELSE a.QueuedTask.Pid < b.QueuedTask.Pid

\* the index (from 1) the scan of Simple_insertTaskToPool stops at
InsertIdx(pool, newTask) ==
    IF \E i \in 1..Len(pool) : lessTask(newTask, pool[i])
    THEN CHOOSE i \in 1..Len(pool) :
            /\ lessTask(newTask, pool[i])
            /\ \A j \in 1..(i - 1) : ~lessTask(newTask, pool[j])
    ELSE Len(pool) + 1

\* a faulty Simple_insertTaskToPool: the sorted insertion, also in FIFO mode
Simple_insertTaskToPool_Sorted(sp, newTask) ==
    LET idx == InsertIdx(sp.taskPool, newTask)
    IN  [sp EXCEPT !.taskPool =
            SubSeq(@, 1, idx - 1) \o <<newTask>> \o SubSeq(@, idx, Len(@))]

Simple_insertTaskToPool(sp, newTask) ==
    IF sp.fifoMode
    THEN [sp EXCEPT !.taskPool = Append(@, newTask)]
    ELSE LET idx == InsertIdx(sp.taskPool, newTask)
         IN  [sp EXCEPT !.taskPool =
                 SubSeq(@, 1, idx - 1) \o <<newTask>> \o SubSeq(@, idx, Len(@))]

\* a faulty Simple_updateRunningTask: the clock follows the task also backwards
Simple_updateRunningTask_Assign(sp, task) ==
    [sp EXCEPT !.vtimeNow = IF task.Vtime = 0 THEN 1 ELSE task.Vtime]

Simple_updateRunningTask(sp, task) ==
    LET v == IF sp.vtimeNow < task.Vtime THEN task.Vtime ELSE sp.vtimeNow
    IN  [sp EXCEPT !.vtimeNow = IF v = 0 THEN 1 ELSE v]

\* a faulty Simple_updateStoppingTask: the charge is made in FIFO mode too
Simple_updateStoppingTask_AnyMode(sp, task, execTime) ==
    IF task.Weight = 0 THEN [task |-> task, fault |-> TRUE]
    ELSE LET vtime == U64Add(task.Vtime,
                             U64Mul(execTime, 100) \div task.Weight)
         IN  [task |-> [task EXCEPT !.Vtime = IF vtime = 0 THEN 1 ELSE vtime],
              fault |-> FALSE]

\* updateStoppingTask: the task after the call; fault: the call ended in the
\* run-time panic of an integer division by zero
Simple_updateStoppingTask(sp, task, execTime) ==
    IF sp.fifoMode THEN [task |-> task, fault |-> FALSE]
    ELSE IF task.Weight = 0 THEN [task |-> task, fault |-> TRUE]
    ELSE LET vtime == U64Add(task.Vtime,
                             U64Mul(execTime, 100) \div task.Weight)
         IN  [task |-> [task EXCEPT !.Vtime = IF vtime = 0 THEN 1 ELSE vtime],
              fault |-> FALSE]

\* a faulty Simple_getTaskFromPool: updateRunningTask is not called
Simple_getTaskFromPool_NoClock(sp) ==
    IF Len(sp.taskPool) = 0
    THEN [s |-> sp, task |-> NilQueuedTask, entry |-> <<>>]
    ELSE [s |-> [sp EXCEPT !.taskPool = Tail(@)],
          task |-> sp.taskPool[1].QueuedTask, entry |-> <<sp.taskPool[1]>>]

\* the plugin after the call, the task returned and the entry removed
Simple_getTaskFromPool(sp) ==
    IF Len(sp.taskPool) = 0
    THEN [s |-> sp, task |-> NilQueuedTask, entry |-> <<>>]
    ELSE LET task == sp.taskPool[1]
             sp1 == [sp EXCEPT !.taskPool = Tail(@)]
             selectedTask ==
                 IF ~sp.fifoMode /\ task.QueuedTask.Vtime = 0
                 THEN [task.QueuedTask EXCEPT !.Vtime = 1]
                 ELSE task.QueuedTask
         IN  [s |-> IF ~sp.fifoMode THEN Simple_updateRunningTask(sp1, selectedTask)
                    ELSE sp1,
              task |-> selectedTask, entry |-> <<task>>]

\* a faulty SimpleDrainLoop: only the sentinel Pid = -1 ends the loop
RECURSIVE SimpleDrainLoop_SentinelOnly(_, _, _, _)
SimpleDrainLoop_SentinelOnly(sp, source, count, nadm) ==
    LET d == DequeueTask(source)
        queuedTask == [d.task EXCEPT !.addr = nadm + count + 1]
    IN  IF queuedTask.Pid = -1
        THEN [s |-> sp, count |-> count, admitted |-> count, left |-> d.rest]
        ELSE SimpleDrainLoop_SentinelOnly(
                 [Simple_insertTaskToPool(sp, Simple_enqueueTask(sp, queuedTask))
                     EXCEPT !.globalQueueCount = @ + 1],
                 d.rest, count + 1, nadm)

\* the loop of DrainQueuedTask.  nadm counts the tasks admitted before the
\* call and names the addresses of the QueuedTask variables of this call;
\* left is what the call leaves at the source.
RECURSIVE SimpleDrainLoop(_, _, _, _)
SimpleDrainLoop(sp, source, count, nadm) ==
    LET d == DequeueTask(source)
        queuedTask == [d.task EXCEPT !.addr = nadm + count + 1]
    IN  IF queuedTask.Pid <= 0
        THEN [s |-> sp, count |-> count, admitted |-> count, left |-> d.rest]
        ELSE SimpleDrainLoop(
                 [Simple_insertTaskToPool(sp, Simple_enqueueTask(sp, queuedTask))
                     EXCEPT !.globalQueueCount = @ + 1],
                 d.rest, count + 1, nadm)

Simple_DrainQueuedTask(sp, source, nadm) == SimpleDrainLoop(sp, source, 0, nadm)

----------------------------------------------------------------------------
(* GthulhuPlugin, plugin/gthulhu/gthulhu.go *)

\* the zero value Task{} the heap array is allocated with
ZeroTask == [QueuedTask |-> NilQueuedTask, Deadline |-> 0, Timestamp |-> 0]

\* util.SchedulingStrategy
StrategyPids == {1}

ExecutionTimes == {2000000}

Strategies ==
    [Priority : BOOLEAN, ExecutionTime : ExecutionTimes, PID : StrategyPids]

StrategyLists == UNION { [1..k -> Strategies] : k \in 0..MaxStrategies }

\* int32(strategy.PID): PID is an int, the key of the map an int32.  The
\* model keeps the conversion on words of PidBits bits (32 in the source).
Int32(x) == ((x + 2 ^ (PidBits - 1)) % (2 ^ PidBits)) - 2 ^ (PidBits - 1)

\* the map built by the loop of UpdateStrategyMap: a later strategy of the
\* list replaces an earlier one with the same key
StrategyMapOf(strategies) ==
    [pid \in { Int32(strategies[i].PID) : i \in 1..Len(strategies) } |->
        LET last == CHOOSE i \in 1..Len(strategies) :
                        /\ Int32(strategies[i].PID) = pid
                        /\ \A j \in (i + 1)..Len(strategies) :
                               Int32(strategies[j].PID) # pid
        IN  strategies[last]]

\* the values of config.Scheduler.SliceNsDefault and SliceNsMin (0: not configured)
GthulhuSliceConfigs == {0}

\* a faulty len: the capacity check is off by one
len_PlusOne(pool) == Cardinality(DOMAIN pool) + 1

\* len(g.taskPool).  The source compares the count with the constant
\* taskPoolSize, the length the array is made with (gthulhu.go:78); the model
\* reads the length, so that the heap can also be checked on a longer array.
len(pool) == Cardinality(DOMAIN pool)

NewGthulhuPlugin(sliceNsDefault, sliceNsMin) ==
    [sliceNsDefault |-> IF sliceNsDefault > 0 THEN sliceNsDefault ELSE 5000 * 1000,
     sliceNsMin |-> IF sliceNsMin > 0 THEN sliceNsMin ELSE 500 * 1000,
     taskPool |-> [i \in 0..(taskPoolSize - 1) |-> ZeroTask],
     taskPoolCount |-> 0,
     minVruntime |-> 0,
     strategyMap |-> StrategyMapOf(<<>>)]

UpdateStrategyMap(gp, strategies) ==
    [gp EXCEPT !.strategyMap = StrategyMapOf(strategies)]

\* the task after the call, and whether a strategy applied
applySchedulingStrategy(gp, task) ==
    IF task.Tgid \in DOMAIN gp.strategyMap
    THEN [task |-> IF gp.strategyMap[task.Tgid].Priority
                   THEN [task EXCEPT !.Vtime = 0] ELSE task,
          applied |-> TRUE]
    ELSE [task |-> task, applied |-> FALSE]

\* a faulty update of the clock: it is set to the Vtime of the task
updatedEnqueueTask_clock_Follows(gp, t) == [gp EXCEPT !.minVruntime = t.Vtime]

\* updatedEnqueueTask, gthulhu.go:169-171: the plugin after
\* "if g.minVruntime < t.Vtime { g.minVruntime = t.Vtime }"
updatedEnqueueTask_clock(gp, t) ==
    [gp EXCEPT !.minVruntime = IF @ < t.Vtime THEN t.Vtime ELSE @]

\* updatedEnqueueTask, gthulhu.go:172: minVruntimeLocal
updatedEnqueueTask_local(gp) == saturatingSub(gp.minVruntime, gp.sliceNsDefault)

\* updatedEnqueueTask, gthulhu.go:173-178: the task after the assignments of
\* t.Vtime; fault: the run-time panic of an integer division by zero
updatedEnqueueTask_vtime(gp, t, minVruntimeLocal) ==
    LET vtime1 ==
            IF t.Vtime = 0
            THEN U64Add(minVruntimeLocal,
                        U64Mul(gp.sliceNsDefault, 100) \div t.Weight)
            ELSE IF t.Vtime < minVruntimeLocal
                 THEN minVruntimeLocal ELSE t.Vtime
        vtime2 == U64Add(vtime1,
                         U64Mul(U64Sub(t.StopTs, t.StartTs), t.Weight) \div 100)
    IN  IF t.Vtime = 0 /\ t.Weight = 0
        THEN [t |-> t, fault |-> TRUE]
        ELSE [t |-> [t EXCEPT !.Vtime = vtime2], fault |-> FALSE]

lessQueuedTask(a, b) ==
    IF a.Deadline # b.Deadline THEN a.Deadline < b.Deadline
    ELSE IF a.Timestamp # b.Timestamp THEN a.Timestamp < b.Timestamp
    ELSE a.QueuedTask.Pid < b.QueuedTask.Pid

heapLess(pool, i, j) == lessQueuedTask(pool[i], pool[j])

Swap(pool, i, j) == [pool EXCEPT ![i] = pool[j], ![j] = pool[i]]

RECURSIVE heapSiftUp(_, _)
heapSiftUp(pool, idx) ==
    IF idx > 0
    THEN LET parent == (idx - 1) \div 2
         IN  IF ~heapLess(pool, idx, parent) THEN pool
             ELSE heapSiftUp(Swap(pool, idx, parent), parent)
    ELSE pool

\* a faulty heapSiftDown: the right child is never looked at
RECURSIVE heapSiftDown_LeftOnly(_, _, _)
heapSiftDown_LeftOnly(pool, idx, n) ==
    LET left == 2 * idx + 1
    IN  IF left >= n THEN pool
        ELSE IF ~heapLess(pool, left, idx) THEN pool
        ELSE heapSiftDown_LeftOnly(Swap(pool, idx, left), left, n)

\* n is g.taskPoolCount
RECURSIVE heapSiftDown(_, _, _)
heapSiftDown(pool, idx, n) ==
    LET left == 2 * idx + 1
        right == left + 1
        smallest == IF right < n /\ heapLess(pool, right, left)
                    THEN right ELSE left
    IN  IF left >= n THEN pool
        ELSE IF ~heapLess(pool, smallest, idx) THEN pool
        ELSE heapSiftDown(Swap(pool, idx, smallest), smallest, n)

\* a faulty Gthulhu_getTaskFromPool: the last entry is not moved to the root
Gthulhu_getTaskFromPool_KeepRoot(gp) ==
    IF gp.taskPoolCount = 0
    THEN [g |-> gp, task |-> NilQueuedTask, entry |-> <<>>]
    ELSE [g |-> [gp EXCEPT !.taskPoolCount = @ - 1],
          task |-> gp.taskPool[0].QueuedTask, entry |-> <<gp.taskPool[0]>>]

\* the plugin after the call, the task returned and the entry removed
Gthulhu_getTaskFromPool(gp) ==
    IF gp.taskPoolCount = 0
    THEN [g |-> gp, task |-> NilQueuedTask, entry |-> <<>>]
    ELSE LET top == gp.taskPool[0]
             n == gp.taskPoolCount - 1
             pool == IF n > 0
                     THEN heapSiftDown([gp.taskPool EXCEPT ![0] = gp.taskPool[n]],
                                       0, n)
                     ELSE gp.taskPool
         IN  [g |-> [gp EXCEPT !.taskPoolCount = n, !.taskPool = pool],
              task |-> top.QueuedTask, entry |-> <<top>>]

\* the plugin after the call, and the value returned
Gthulhu_insertTaskToPool(gp, newTask) ==
    IF gp.taskPoolCount >= len(gp.taskPool) - 1
    THEN [g |-> gp, ok |-> FALSE]
    ELSE [g |-> [gp EXCEPT
                    !.taskPool = heapSiftUp(
                        [@ EXCEPT ![gp.taskPoolCount] = newTask],
                        gp.taskPoolCount),
                    !.taskPoolCount = @ + 1],
          ok |-> TRUE]

\* A call of drainQueuedTask in progress.  pc is the place of the goroutine
\* in it; count, newQueuedTask, minVruntimeLocal and t are the locals of
\* these names, seen is what applySchedulingStrategy read of the map under
\* the read lock (strategy, exists: the entry of the Tgid, or no entry).
\* For the history: before is the pool count when the call began, dequeued
\* the number of tasks it has taken from the source.
DrainCalled(gp) ==
    [pc |-> "check", count |-> 0, newQueuedTask |-> NilQueuedTask,
     seen |-> <<>>, minVruntimeLocal |-> 0, t |-> ZeroTask,
     before |-> gp.taskPoolCount, dequeued |-> 0]

\* the places of a call of drainQueuedTask its goroutine moves on from
DrainPlaces == {"check", "dequeue", "lookup", "clock", "local", "vtime", "insert"}

\* the task of a turn as the heap stores it: Task{QueuedTask, Deadline, Timestamp}
DrainTask(newQueuedTask) ==
    [QueuedTask |-> newQueuedTask, Deadline |-> 0,
     Timestamp |-> newQueuedTask.StartTs]

\* One step of drainQueuedTask by the goroutine whose call is c, on the
\* plugin as the other goroutines have left it.  A step is what the call
\* does under one lock, or between two locks to the fields that other calls
\* write.  next is what DequeueTask hands out if the step asks the source,
\* addr the address of the QueuedTask variable of the turn.  out tells how
\* the step leaves the call: in progress ("step"), returned with value
\* ("return") or ended by a run-time panic ("panic"); inserted, that the
\* step put the task of the turn into the pool.
drainQueuedTask(gp, c, next, addr) ==
    LET going(gp2, c2) ==
            [g |-> gp2, c |-> c2, out |-> "step", value |-> 0, inserted |-> FALSE]
        returns(value) ==
            [g |-> gp, c |-> c, out |-> "return", value |-> value,
             inserted |-> FALSE]
    IN  CASE c.pc = "check" ->
               \* gthulhu.go:136-141, under g.poolMu
               IF gp.taskPoolCount >= len(gp.taskPool) - 1
               THEN returns(0)
               ELSE going(gp, [c EXCEPT !.pc = "dequeue"])
          [] c.pc = "dequeue" ->
               \* gthulhu.go:142-146
               IF next.Pid = -1
               THEN returns(c.count)
               ELSE going(gp, [c EXCEPT !.pc = "lookup",
                                        !.newQueuedTask = [next EXCEPT !.addr = addr],
                                        !.dequeued = @ + 1])
          [] c.pc = "lookup" ->
               \* applySchedulingStrategy, gthulhu.go:277-290: the lookup
               \* under g.strategyMu, then what it does to the task
               LET a == applySchedulingStrategy(gp, c.newQueuedTask)
                   seen == [k \in DOMAIN gp.strategyMap \cap {c.newQueuedTask.Tgid} |->
                               gp.strategyMap[k]]
               IN  going(gp, [c EXCEPT !.seen = seen,
                                       !.newQueuedTask = a.task,
                                       !.t = DrainTask(a.task),
                                       !.pc = IF a.applied THEN "insert" ELSE "clock"])
          [] c.pc = "clock" ->
               going(updatedEnqueueTask_clock(gp, c.newQueuedTask),
                     [c EXCEPT !.pc = "local"])
          [] c.pc = "local" ->
               going(gp, [c EXCEPT !.minVruntimeLocal = updatedEnqueueTask_local(gp),
                                   !.pc = "vtime"])
          [] c.pc = "vtime" ->
               LET v == updatedEnqueueTask_vtime(gp, c.newQueuedTask,
                                                 c.minVruntimeLocal)
               IN  IF v.fault
                   THEN [g |-> gp, c |-> c, out |-> "panic", value |-> 0,
                         inserted |-> FALSE]
                   ELSE going(gp, [c EXCEPT !.newQueuedTask = v.t,
                                            !.t = DrainTask(v.t),
                                            !.minVruntimeLocal = 0,
                                            !.pc = "insert"])
          [] c.pc = "insert" ->
               \* gthulhu.go:152-156, insertTaskToPool under g.poolMu
               LET ins == Gthulhu_insertTaskToPool(gp, c.t)
               IN  IF ~ins.ok
                   THEN returns(c.count)
                   ELSE \* count++, and the locals of the turn are new ones
                        [going(ins.g, [DrainCalled(gp) EXCEPT
                                          !.count = c.count + 1,
                                          !.before = c.before,
                                          !.dequeued = c.dequeued])
                            EXCEPT !.inserted = TRUE]

\* for the history: whether the task of the turn of c met a strategy, and
\* one with the priority flag
SeenStrategy(c) == c.newQueuedTask.Tgid \in DOMAIN c.seen

SeenPriority(c) == SeenStrategy(c) /\ c.seen[c.newQueuedTask.Tgid].Priority

----------------------------------------------------------------------------
(* DetermineTimeSlice and SetSchedulerConfig of GthulhuPlugin *)

\* getTaskExecutionTime(pid): the lookup under the read lock, then the test
getTaskExecutionTime(gp, pid) ==
    IF pid \in DOMAIN gp.strategyMap /\ gp.strategyMap[pid].ExecutionTime > 0
    THEN gp.strategyMap[pid].ExecutionTime
    ELSE 0

\* a faulty DetermineTimeSlice: the lookup is keyed as the one of admission
DetermineTimeSlice_ByTgid(gp, t) == getTaskExecutionTime(gp, t.Tgid)

DetermineTimeSlice(gp, t) == getTaskExecutionTime(gp, t.Pid)

SetSchedulerConfig(gp, sliceNsDefault, sliceNsMin) ==
    [gp EXCEPT
        !.sliceNsDefault = IF sliceNsDefault > 0 THEN sliceNsDefault ELSE @,
        !.sliceNsMin = IF sliceNsMin > 0 THEN sliceNsMin ELSE @]

----------------------------------------------------------------------------
(* The refresh goroutine of StartStrategyFetcher, plugin/gthulhu/gthulhu.go *)

\* a slice of strategies: nil, or the list of its elements
NilSlice == [isNil |-> TRUE, elems |-> <<>>]

Slice(list) == [isNil |-> FALSE, elems |-> list]

\* the strategies the API server sends.  The last PID does not fit the key
\* of the map.
FetchStrategies ==
    { [Priority |-> TRUE, ExecutionTime |-> 2000000, PID |-> 1],
      [Priority |-> FALSE, ExecutionTime |-> 3000000, PID |-> 2],
      [Priority |-> FALSE, ExecutionTime |-> 0, PID |-> 2 ^ PidBits + 2] }

\* longest list of strategies in one response
MaxFetched == 2

FetchLists == UNION { [1..k -> FetchStrategies] : k \in 0..MaxFetched }

\* what a request of fetchSchedulingStrategies meets: a request or a decoding
\* that fails, or a decoded SchedulingStrategiesResponse.  Scheduling is nil
\* when the body has "scheduling": null or no such field, and a list, empty
\* for "scheduling": [], otherwise.
FetchOutcomes ==
    {[failed |-> TRUE, Success |-> FALSE, Scheduling |-> NilSlice]}
        \cup {[failed |-> FALSE, Success |-> FALSE, Scheduling |-> NilSlice]}
        \cup { [failed |-> FALSE, Success |-> TRUE, Scheduling |-> l] :
                 l \in {NilSlice} \cup { Slice(list) : list \in FetchLists } }

\* fetchSchedulingStrategies: the pair (strategies, err) it returns
fetchSchedulingStrategies(outcome) ==
    IF outcome.failed THEN [strategies |-> NilSlice, err |-> TRUE]
    ELSE IF outcome.Success THEN [strategies |-> outcome.Scheduling, err |-> FALSE]
    ELSE [strategies |-> NilSlice, err |-> FALSE]

\* for the history: the kind of an outcome
KindOf(outcome) ==
    IF outcome.failed THEN "failed"
    ELSE IF ~outcome.Success THEN "unsuccessful"
    ELSE IF outcome.Scheduling.isNil THEN "null"
    ELSE "list"

\* a faulty test of the result: an error empties the map
Fetched_OrError(result) == result.err \/ ~result.strategies.isNil

\* err == nil && strategies != nil, the test before UpdateStrategyMap
Fetched(result) == ~result.err /\ ~result.strategies.isNil

MapPut(m, k, v) == [x \in DOMAIN m \cup {k} |-> IF x = k THEN v ELSE m[x]]

\* a faulty UpdateStrategyMap: newMap is the map in use, not a new one
UpdateStrategyMap_loop_InPlace(gp, newMap, str) ==
    LET m == MapPut(gp.strategyMap, Int32(str.PID), str)
    IN  [g |-> [gp EXCEPT !.strategyMap = m], newMap |-> m]

\* one turn of the loop of UpdateStrategyMap, str the strategy of the turn:
\* newMap[int32(strategy.PID)] = strategy
UpdateStrategyMap_loop(gp, newMap, str) ==
    [g |-> gp, newMap |-> MapPut(newMap, Int32(str.PID), str)]

\* a faulty branch of the select: the goroutine returns with the ticker running
OnDone_Leak(tk) == tk

\* case <-ctx.Done(): ticker.Stop()
OnDone(tk) == [tk EXCEPT !.stopped = TRUE]

\* a faulty fetch: the write lock of the map is taken for the request
FetchLock_Held(mu) == [mu EXCEPT !.writer = "refresh"]

\* the lock of the map as FetchSchedulingStrategies leaves it on entry: it
\* takes no lock
FetchLock(mu) == mu

\* the goroutine before StartStrategyFetcher is called.  pc is the place of
\* the goroutine; fetched the list a fetch returned, strategies what the
\* loop of UpdateStrategyMap has not yet read of it, newMap the map of that
\* call.  For the history: old is the map in use when the last fetch
\* returned, last what that fetch returned.
NoRefresh ==
    [pc |-> "off", fetched |-> <<>>, strategies |-> <<>>, newMap |-> <<>>,
     old |-> <<>>, last |-> "none"]

\* a sync.RWMutex and a sync.Mutex nobody holds
FreeRW == [writer |-> "none", readers |-> {}]

Free == "none"

----------------------------------------------------------------------------
(* The dispatch loop driving one policy instance *)

Modes == {"simple", "simple-fifo", "gthulhu"}

IsSimple == mode \in {"simple", "simple-fifo"}

\* GetPoolCount of the instance in use (simple.go:133, gthulhu.go:127)
GetPoolCount == IF IsSimple THEN Len(s.taskPool) ELSE g.taskPoolCount

\* the entries resident in the pool of the instance in use
Resident ==
    IF IsSimple THEN { s.taskPool[i] : i \in 1..Len(s.taskPool) }
    ELSE { g.taskPool[i] : i \in 0..(g.taskPoolCount - 1) }

\* ret after a call: op names it, count is the value DrainQueuedTask
\* returned, task the value SelectQueuedTask returned; for the history,
\* entry is the pool entry removed, before the pool count before the call,
\* dequeued the number of tasks the call took from the source, left the
\* number of tasks with Pid > 0 the source held when the call returned
Returned(op, count, task, entry, before, dequeued, left) ==
    [op |-> op, count |-> count, task |-> task, entry |-> entry,
     before |-> before, dequeued |-> dequeued, left |-> left]

NoCall == Returned("new", 0, NilQueuedTask, <<>>, 0, 0, 0)

\* the number of tasks with Pid > 0 in a queue of the source
ValidIn(source) == Cardinality({ i \in 1..Len(source) : source[i].Pid > 0 })

NoStrategy == [applied |-> {}, priority |-> {}]

\* the dispatch goroutine outside a call: pc is its place, task the argument
\* of the call it is in, slice what DetermineTimeSlice returned last
NoDispatch == [pc |-> "idle", task |-> NilQueuedTask, slice |-> 0]

NoObserver == [op |-> "none", value |-> 0, during |-> Free]

\* pluginRegistry = make(map[string]PluginFactory)
NoRegistry == [pluginRegistry |-> <<>>, first |-> <<>>]

\* a context not cancelled, and no ticker
Background == [done |-> FALSE]

NoTicker == [C |-> 0, stopped |-> FALSE]

\* one instance and its dispatch loop alone: no refresh goroutine, no second
\* goroutine, nothing registered
Alone ==
    /\ refresh = NoRefresh
    /\ ctx = Background
    /\ ticker = NoTicker
    /\ strategyMu = FreeRW
    /\ poolMu = Free
    /\ dispatch = NoDispatch
    /\ observer = NoObserver
    /\ registry = NoRegistry
    /\ inst = <<>>

\* The instance after construction: a SimplePlugin as NewSimplePlugin and
\* SetSliceDefault leave it, a GthulhuPlugin as NewGthulhuPlugin returns
\* it.  No strategy fetcher is started: StartStrategyFetcher, which the
\* factory of mode "gthulhu" calls on the new instance, is taken up in
\* SpecFetch and SpecCreate.
Init ==
    /\ mode \in Modes
    /\ \E slice \in SliceNsConfigs : s = SimpleFactory(mode = "simple-fifo", slice)
    /\ \E slice \in GthulhuSliceConfigs : g = NewGthulhuPlugin(slice, slice)
    /\ admitted = 0
    /\ selected = <<>>
    /\ strategy = NoStrategy
    /\ ret = NoCall
    /\ Alone

\* an unrecovered panic ends the process: no call follows it
Running == ret.op # "panic"

\* the dispatch goroutine is between two calls
Idle == dispatch.pc = "idle"

\* g.poolMu.Lock() and g.strategyMu.RLock() return at once
PoolFree == poolMu = Free

MayRead == strategyMu.writer = "none"

\* DrainQueuedTask with one of the given queues at the source
SimpleDrainFrom(sources) ==
    /\ IsSimple
    /\ Running
    /\ \E source \in sources :
          LET r == Simple_DrainQueuedTask(s, source, admitted)
          IN  /\ s' = r.s
              /\ admitted' = admitted + r.admitted
              /\ ret' = Returned("drain", r.count, NilQueuedTask, <<>>,
                                 Len(s.taskPool), Len(source) - Len(r.left),
                                 ValidIn(r.left))
    /\ UNCHANGED <<mode, g, selected, strategy>>
    /\ UNCHANGED background

SimpleDrain == SimpleDrainFrom(Sources(MaxAdmitted - admitted))

SimpleSelect ==
    /\ IsSimple
    /\ Running
    /\ LET r == Simple_getTaskFromPool(s)
       IN  /\ s' = r.s
           /\ selected' = IF r.task = NilQueuedTask THEN selected
                          ELSE Append(selected, r.task.addr)
           /\ ret' = Returned("select", 0, r.task, r.entry, Len(s.taskPool), 0, 0)
    /\ UNCHANGED <<mode, g, admitted, strategy>>
    /\ UNCHANGED background

\* the dispatch goroutine calls DrainQueuedTask on the GthulhuPlugin
GthulhuDrainCall ==
    /\ mode = "gthulhu"
    /\ Running
    /\ Idle
    /\ dispatch' = DrainCalled(g)
    /\ ret' = Returned("draining", 0, NilQueuedTask, <<>>, g.taskPoolCount, 0, 0)
    /\ UNCHANGED <<mode, s, g, admitted, selected, strategy>>
    /\ UNCHANGED <<refresh, ctx, ticker, strategyMu, poolMu, observer, registry, inst>>

\* what DequeueTask hands out when the source holds one of the given tasks,
\* or none
Handed(tasks) == { DequeueTask(source).task : source \in SourcesOf(tasks, 1) }

\* ret when the call c returns value, or ends in a panic
DrainReturned(out, value, c) ==
    Returned(IF out = "panic" THEN "panic" ELSE "drain", value, NilQueuedTask,
             <<>>, c.before, c.dequeued, 0)

\* the history of the strategies, after the task of the turn of c is inserted
Applied(hist, c) ==
    [applied |-> hist.applied \cup
         (IF SeenStrategy(c) THEN {c.newQueuedTask.addr} ELSE {}),
     priority |-> hist.priority \cup
         (IF SeenPriority(c) THEN {c.newQueuedTask.addr} ELSE {})]

\* One step of the call of DrainQueuedTask in progress, the source holding
\* one of the given tasks or none.  Lock and RLock return when the lock is
\* free; the other goroutines take their steps between two steps of the call.
GthulhuDrainStep(tasks) ==
    /\ mode = "gthulhu"
    /\ Running
    /\ dispatch.pc \in DrainPlaces
    /\ dispatch.pc \in {"check", "insert"} => PoolFree
    /\ dispatch.pc = "lookup" => MayRead
    /\ \E next \in IF dispatch.pc = "dequeue" THEN Handed(tasks)
                   ELSE {NilQueuedTask} :
          LET r == drainQueuedTask(g, dispatch, next, admitted + 1)
          IN  /\ g' = r.g
              /\ admitted' = IF r.inserted THEN admitted + 1 ELSE admitted
              /\ strategy' = IF r.inserted THEN Applied(strategy, dispatch)
                             ELSE strategy
              /\ dispatch' = IF r.out = "step" THEN r.c ELSE NoDispatch
              /\ ret' = IF r.out = "step" THEN ret
                        ELSE DrainReturned(r.out, r.value, r.c)
    /\ UNCHANGED <<mode, s, selected>>
    /\ UNCHANGED <<refresh, ctx, ticker, strategyMu, poolMu, observer, registry, inst>>

\* the tasks the source hands a GthulhuPlugin: the order of the heap on
\* Timestamp is taken up where the heap is driven directly
GthulhuTasks == { t \in SourceTasks : t.StartTs # 1500 }

\* the source holds a task as long as the run has tasks left to admit
GthulhuDrain ==
    GthulhuDrainStep(IF admitted < MaxAdmitted THEN GthulhuTasks ELSE {})

GthulhuSelect ==
    /\ mode = "gthulhu"
    /\ Running
    /\ Idle
    /\ PoolFree
    /\ LET r == Gthulhu_getTaskFromPool(g)
       IN  /\ g' = r.g
           /\ selected' = IF r.task = NilQueuedTask THEN selected
                          ELSE Append(selected, r.task.addr)
           /\ ret' = Returned("select", 0, r.task, r.entry, g.taskPoolCount, 0, 0)
           \* the history keeps the resident tasks and the task returned
           /\ strategy' =
                 LET kept == { r.g.taskPool[i].QueuedTask.addr :
                                 i \in 0..(r.g.taskPoolCount - 1) } \cup {r.task.addr}
                 IN  [applied |-> strategy.applied \cap kept,
                      priority |-> strategy.priority \cap kept]
    /\ UNCHANGED <<mode, s, admitted>>
    /\ UNCHANGED background

GthulhuUpdateStrategyMap ==
    /\ mode = "gthulhu"
    /\ Running
    /\ \E strategies \in StrategyLists :
          \* a call that leaves the map as it is changes nothing: a stuttering step
          /\ StrategyMapOf(strategies) # g.strategyMap
          /\ g' = UpdateStrategyMap(g, strategies)
    /\ UNCHANGED <<mode, s, admitted, selected, strategy, ret>>
    /\ UNCHANGED background

Next ==
    \/ SimpleDrain
    \/ SimpleSelect
    \/ GthulhuDrainCall
    \/ GthulhuDrain
    \/ GthulhuSelect
    \/ GthulhuUpdateStrategyMap

Spec == Init /\ [][Next]_vars

----------------------------------------------------------------------------
(* The heap of GthulhuPlugin driven directly, as TestMinHeapOrderByDeadline *)
(* drives it: insertTaskToPool and getTaskFromPool with explicit deadlines. *)

\* length of the heap array in this specification (4096 in the source)
HeapPoolSize == 6

Deadlines == {5, 10}

Timestamps == {150, 200}

\* Task{QueuedTask: &models.QueuedTask{Pid, StartTs}, Deadline, Timestamp}
HeapTask(d, ts, p) ==
    [QueuedTask |-> QueuedTask(1, p, 0, ts, 0, 0, 0), Deadline |-> d,
     Timestamp |-> ts]

\* a first entry and the entries that differ from it in one field of the order
HeapTasks ==
    { t \in { HeapTask(d, ts, p) :
                d \in Deadlines, ts \in Timestamps, p \in Pids } :
        \/ t = HeapTask(5, 150, 1)
        \/ t = HeapTask(10, 150, 1)
        \/ t = HeapTask(5, 200, 1)
        \/ t = HeapTask(5, 150, 2) }

HeapInit ==
    /\ mode = "gthulhu"
    /\ s = NewSimplePlugin(FALSE)
    /\ g = [NewGthulhuPlugin(0, 0) EXCEPT
               !.taskPool = [i \in 0..(HeapPoolSize - 1) |-> ZeroTask]]
    /\ admitted = 0
    /\ selected = <<>>
    /\ strategy = NoStrategy
    /\ ret = NoCall
    /\ Alone

HeapInsert ==
    /\ \E t \in HeapTasks :
          LET r == Gthulhu_insertTaskToPool(g, t)
          IN  /\ g' = r.g
              /\ ret' = Returned("insert", IF r.ok THEN 1 ELSE 0, NilQueuedTask,
                                 <<>>, g.taskPoolCount, 0, 0)
    /\ UNCHANGED <<mode, s, admitted, selected, strategy>>
    /\ UNCHANGED background

HeapPop ==
    /\ LET r == Gthulhu_getTaskFromPool(g)
       IN  /\ g' = r.g
           /\ ret' = Returned("select", 0, r.task, r.entry, g.taskPoolCount, 0, 0)
    /\ UNCHANGED <<mode, s, admitted, selected, strategy>>
    /\ UNCHANGED background

HeapNext == HeapInsert \/ HeapPop

SpecHeap == HeapInit /\ [][HeapNext]_vars

----------------------------------------------------------------------------
(* Both policies on the whole range of the uint64 fields of a task: Vtime   *)
(* and execTime up to the largest value, Weight down to 0; with            *)
(* updateStoppingTask, which the tests call on the task Select returned.   *)

\* number of tasks admitted over one run of this specification
WideAdmitted == 2

WideVtimes == {0, 1, 6000000, Modulus - 1}

WideWeights == {0, 1, 100}

ExecTimes == {0, 1, 1000000, Modulus - 1}

WideTasks ==
    { SourceTask(1, v, 1000, 2000, w) : v \in WideVtimes, w \in WideWeights }

WideSimpleDrain == SimpleDrainFrom(SourcesOf(WideTasks, WideAdmitted - admitted))

WideGthulhuDrain ==
    GthulhuDrainStep(IF admitted < WideAdmitted THEN WideTasks ELSE {})

\* updateStoppingTask(task, execTime) on the task Select returned last
SimpleUpdateStoppingTask ==
    /\ IsSimple
    /\ ret.op = "select"
    /\ ret.task # NilQueuedTask
    /\ \E execTime \in ExecTimes :
          LET r == Simple_updateStoppingTask(s, ret.task, execTime)
          IN  ret' = [ret EXCEPT !.op = IF r.fault THEN "panic" ELSE "stop",
                                 !.task = r.task]
    /\ UNCHANGED <<mode, s, g, admitted, selected, strategy>>
    /\ UNCHANGED background

WideNext ==
    \/ WideSimpleDrain
    \/ SimpleSelect
    \/ SimpleUpdateStoppingTask
    \/ GthulhuDrainCall
    \/ WideGthulhuDrain
    \/ GthulhuSelect

SpecWide == Init /\ [][WideNext]_vars

----------------------------------------------------------------------------
(* One GthulhuPlugin with its refresh goroutine: the dispatch loop calls     *)
(* Drain, Select and DetermineTimeSlice while StartStrategyFetcher fetches   *)
(* and replaces the strategy map; the ticker ticks and the context is        *)
(* cancelled at any moment.                                                  *)

\* number of tasks admitted over one run of this specification
FetchAdmitted == 1

\* the thread 2 of the process 1
FetchTasks == { QueuedTask(0, 2, 6000000, 1000, 2000, 100, 1) }

\* the factory of init: NewGthulhuPlugin, then StartStrategyFetcher, which
\* makes the ticker and starts the goroutine
FetchInit ==
    /\ mode = "gthulhu"
    /\ s = NewSimplePlugin(FALSE)
    /\ g = NewGthulhuPlugin(0, 0)
    /\ admitted = 0
    /\ selected = <<>>
    /\ strategy = NoStrategy
    /\ ret = NoCall
    /\ refresh = [NoRefresh EXCEPT !.pc = "initial"]
    /\ ctx = Background
    /\ ticker = NoTicker
    /\ strategyMu = FreeRW
    /\ poolMu = Free
    /\ dispatch = NoDispatch
    /\ observer = NoObserver
    /\ registry = NoRegistry
    /\ inst = <<>>

\* the goroutine calls FetchSchedulingStrategies
StartFetch ==
    /\ refresh' = [refresh EXCEPT !.pc = "fetching", !.last = "none"]
    /\ strategyMu' = FetchLock(strategyMu)

\* "Fetch immediately on start"
RefreshInitialFetch ==
    /\ refresh.pc = "initial"
    /\ StartFetch
    /\ UNCHANGED <<mode, s, g, admitted, selected, strategy, ret>>
    /\ UNCHANGED <<ctx, ticker, poolMu, dispatch, observer, registry, inst>>

\* case <-ticker.C of the select
RefreshTick ==
    /\ refresh.pc = "select"
    /\ ticker.C = 1
    /\ ticker' = [ticker EXCEPT !.C = 0]
    /\ StartFetch
    /\ UNCHANGED <<mode, s, g, admitted, selected, strategy, ret>>
    /\ UNCHANGED <<ctx, poolMu, dispatch, observer, registry, inst>>

\* FetchSchedulingStrategies returns, and the goroutine tests what it returned
RefreshFetchReturn ==
    /\ refresh.pc = "fetching"
    /\ \E outcome \in FetchOutcomes :
          LET result == fetchSchedulingStrategies(outcome)
              list == result.strategies.elems
          IN  refresh' =
                 IF Fetched(result)
                 THEN [refresh EXCEPT !.pc = "update", !.fetched = list,
                                      !.strategies = list, !.newMap = <<>>,
                                      !.old = g.strategyMap,
                                      !.last = KindOf(outcome)]
                 ELSE [refresh EXCEPT !.pc = "select", !.old = g.strategyMap,
                                      !.last = KindOf(outcome)]
    /\ UNCHANGED <<mode, s, g, admitted, selected, strategy, ret>>
    /\ UNCHANGED <<ctx, ticker, strategyMu, poolMu, dispatch, observer, registry, inst>>

\* UpdateStrategyMap: one turn of the loop that fills newMap
RefreshUpdateLoop ==
    /\ refresh.pc = "update"
    /\ refresh.strategies # <<>>
    /\ LET r == UpdateStrategyMap_loop(g, refresh.newMap, Head(refresh.strategies))
       IN  /\ g' = r.g
           /\ refresh' = [refresh EXCEPT !.strategies = Tail(@),
                                         !.newMap = r.newMap]
    /\ UNCHANGED <<mode, s, admitted, selected, strategy, ret>>
    /\ UNCHANGED <<ctx, ticker, strategyMu, poolMu, dispatch, observer, registry, inst>>

\* UpdateStrategyMap: g.strategyMu.Lock()
RefreshUpdateLock ==
    /\ refresh.pc = "update"
    /\ refresh.strategies = <<>>
    /\ strategyMu = FreeRW
    /\ strategyMu' = [strategyMu EXCEPT !.writer = "refresh"]
    /\ refresh' = [refresh EXCEPT !.pc = "swap"]
    /\ UNCHANGED <<mode, s, g, admitted, selected, strategy, ret>>
    /\ UNCHANGED <<ctx, ticker, poolMu, dispatch, observer, registry, inst>>

\* UpdateStrategyMap: g.strategyMap = newMap; g.strategyMu.Unlock()
RefreshUpdateSwap ==
    /\ refresh.pc = "swap"
    /\ g' = [g EXCEPT !.strategyMap = refresh.newMap]
    /\ strategyMu' = [strategyMu EXCEPT !.writer = "none"]
    /\ refresh' = [refresh EXCEPT !.pc = "select", !.fetched = <<>>,
                                  !.newMap = <<>>, !.old = refresh.newMap]
    /\ UNCHANGED <<mode, s, admitted, selected, strategy, ret>>
    /\ UNCHANGED <<ctx, ticker, poolMu, dispatch, observer, registry, inst>>

\* case <-ctx.Done() of the select
RefreshDone ==
    /\ refresh.pc = "select"
    /\ ctx.done
    /\ ticker' = OnDone(ticker)
    /\ refresh' = [refresh EXCEPT !.pc = "done"]
    /\ UNCHANGED <<mode, s, g, admitted, selected, strategy, ret>>
    /\ UNCHANGED <<ctx, strategyMu, poolMu, dispatch, observer, registry, inst>>

\* the ticker sends a tick; its channel holds one, a tick it cannot send is
\* dropped
Tick ==
    /\ ~ticker.stopped
    /\ ticker.C = 0
    /\ ticker' = [ticker EXCEPT !.C = 1]
    /\ UNCHANGED <<mode, s, g, admitted, selected, strategy, ret>>
    /\ UNCHANGED <<refresh, ctx, strategyMu, poolMu, dispatch, observer, registry, inst>>

\* the owner of the context cancels it
Cancel ==
    /\ ~ctx.done
    /\ ctx' = [ctx EXCEPT !.done = TRUE]
    /\ UNCHANGED <<mode, s, g, admitted, selected, strategy, ret>>
    /\ UNCHANGED <<refresh, ticker, strategyMu, poolMu, dispatch, observer, registry, inst>>

FetchDrain ==
    GthulhuDrainStep(IF admitted < FetchAdmitted THEN FetchTasks ELSE {})

\* DetermineTimeSlice on the task Select returned: g.strategyMu.RLock()
SliceRLock ==
    /\ Running
    /\ Idle
    /\ MayRead
    /\ ret.op = "select"
    /\ ret.task # NilQueuedTask
    /\ dispatch' = [pc |-> "slice", task |-> ret.task, slice |-> 0]
    /\ strategyMu' = [strategyMu EXCEPT !.readers = @ \cup {"dispatch"}]
    /\ UNCHANGED <<mode, s, g, admitted, selected, strategy, ret>>
    /\ UNCHANGED <<refresh, ctx, ticker, poolMu, observer, registry, inst>>

\* DetermineTimeSlice: the lookup, g.strategyMu.RUnlock(), and the return
SliceRead ==
    /\ dispatch.pc = "slice"
    /\ dispatch' = [NoDispatch EXCEPT !.slice = DetermineTimeSlice(g, dispatch.task)]
    /\ strategyMu' = [strategyMu EXCEPT !.readers = @ \ {"dispatch"}]
    /\ UNCHANGED <<mode, s, g, admitted, selected, strategy, ret>>
    /\ UNCHANGED <<refresh, ctx, ticker, poolMu, observer, registry, inst>>

FetchNext ==
    \/ RefreshInitialFetch
    \/ RefreshTick
    \/ RefreshFetchReturn
    \/ RefreshUpdateLoop
    \/ RefreshUpdateLock
    \/ RefreshUpdateSwap
    \/ RefreshDone
    \/ Tick
    \/ Cancel
    \/ GthulhuDrainCall
    \/ FetchDrain
    \/ GthulhuSelect
    \/ SliceRLock
    \/ SliceRead

SpecFetch == FetchInit /\ [][FetchNext]_vars

\* The refresh goroutine alone, with the ticker and the context.  A fetch in
\* progress returns and the goroutine is scheduled: each of its steps is
\* taken when it stays possible.  A select whose two cases are ready takes
\* either, so that the case of ctx.Done() is taken if the select is reached
\* again and again with the context cancelled; and Lock is granted to a
\* writer that waits.
RefreshNext ==
    \/ RefreshInitialFetch
    \/ RefreshTick
    \/ RefreshFetchReturn
    \/ RefreshUpdateLoop
    \/ RefreshUpdateLock
    \/ RefreshUpdateSwap
    \/ RefreshDone
    \/ Tick
    \/ Cancel

RefreshFairness ==
    /\ WF_vars(RefreshInitialFetch)
    /\ WF_vars(RefreshFetchReturn)
    /\ WF_vars(RefreshUpdateLoop)
    /\ SF_vars(RefreshUpdateLock)
    /\ WF_vars(RefreshUpdateSwap)
    /\ SF_vars(RefreshDone)

SpecRefresh == FetchInit /\ [][RefreshNext]_vars /\ RefreshFairness

----------------------------------------------------------------------------
(* GetPoolCount called from a second goroutine while the dispatch goroutine  *)
(* is in insertTaskToPool or getTaskFromPool.  The two take g.poolMu for the *)
(* whole of their body; GetPoolCount reads g.taskPoolCount without it.       *)

RaceInit ==
    /\ mode = "gthulhu"
    /\ s = NewSimplePlugin(FALSE)
    /\ g = NewGthulhuPlugin(0, 0)
    /\ admitted = 0
    /\ selected = <<>>
    /\ strategy = NoStrategy
    /\ ret = NoCall
    /\ Alone

\* insertTaskToPool: g.poolMu.Lock()
InsertLock ==
    /\ Idle
    /\ PoolFree
    /\ \E t \in HeapTasks : dispatch' = [NoDispatch EXCEPT !.pc = "insert", !.task = t]
    /\ poolMu' = "dispatch"
    /\ UNCHANGED <<mode, s, g, admitted, selected, strategy, ret>>
    /\ UNCHANGED <<refresh, ctx, ticker, strategyMu, observer, registry, inst>>

\* insertTaskToPool: the body under the lock, and the deferred Unlock
InsertUnlock ==
    /\ dispatch.pc = "insert"
    /\ LET r == Gthulhu_insertTaskToPool(g, dispatch.task)
       IN  /\ g' = r.g
           /\ ret' = Returned("insert", IF r.ok THEN 1 ELSE 0, NilQueuedTask,
                              <<>>, g.taskPoolCount, 0, 0)
    /\ dispatch' = NoDispatch
    /\ poolMu' = Free
    /\ UNCHANGED <<mode, s, admitted, selected, strategy>>
    /\ UNCHANGED <<refresh, ctx, ticker, strategyMu, observer, registry, inst>>

\* getTaskFromPool: g.poolMu.Lock()
SelectLock ==
    /\ Idle
    /\ PoolFree
    /\ dispatch' = [NoDispatch EXCEPT !.pc = "select"]
    /\ poolMu' = "dispatch"
    /\ UNCHANGED <<mode, s, g, admitted, selected, strategy, ret>>
    /\ UNCHANGED <<refresh, ctx, ticker, strategyMu, observer, registry, inst>>

\* getTaskFromPool: the body under the lock, and the deferred Unlock
SelectUnlock ==
    /\ dispatch.pc = "select"
    /\ LET r == Gthulhu_getTaskFromPool(g)
       IN  /\ g' = r.g
           /\ ret' = Returned("select", 0, r.task, r.entry, g.taskPoolCount, 0, 0)
    /\ dispatch' = NoDispatch
    /\ poolMu' = Free
    /\ UNCHANGED <<mode, s, admitted, selected, strategy>>
    /\ UNCHANGED <<refresh, ctx, ticker, strategyMu, observer, registry, inst>>

\* the count the call in progress of the dispatch goroutine writes
WrittenCount ==
    IF dispatch.pc = "insert"
    THEN Gthulhu_insertTaskToPool(g, dispatch.task).g.taskPoolCount
    ELSE Gthulhu_getTaskFromPool(g).g.taskPoolCount

\* GetPoolCount by the second goroutine: return uint64(g.taskPoolCount), with
\* no lock taken.  A read that meets the write of the call in progress is a
\* data race: it yields the count of before or of after the write.
ObserverGetPoolCount ==
    /\ \E value \in {g.taskPoolCount} \cup
                     (IF poolMu = "dispatch" THEN {WrittenCount} ELSE {}) :
          observer' = [op |-> "read", value |-> value, during |-> poolMu]
    /\ UNCHANGED <<mode, s, g, admitted, selected, strategy, ret>>
    /\ UNCHANGED <<refresh, ctx, ticker, strategyMu, poolMu, dispatch, registry, inst>>

RaceNext ==
    \/ InsertLock
    \/ InsertUnlock
    \/ SelectLock
    \/ SelectUnlock
    \/ ObserverGetPoolCount

SpecRace == RaceInit /\ [][RaceNext]_vars

----------------------------------------------------------------------------
(* Two policy instances in one process, created under different             *)
(* configurations, each with a dispatch loop and a source of its own, as     *)
(* ConcurrentInstanceIsolation creates them.  In this specification inst     *)
(* holds the heap of the process and, for each instance, the pointer its     *)
(* constructor returned; ret holds the instance the last call was made on    *)
(* (0: the call was of a function of the package gthulhu, on the variables   *)
(* of the package) and whether it panicked.                                  *)

Instances == {1, 2}

PairTasks == { SourceTask(1, 6000000, 1000, 2000, 100) }

\* number of tasks an instance, and the pool of the package gthulhu, admits
\* over one run: its source hands out each task of PairTasks once
PairLimit == Cardinality(PairTasks)

\* the slice a call configures: none, or 10ms
PairSlices == {0, 10000 * 1000}

\* the lists given to UpdateStrategyMap
PairStrategyLists ==
    { <<>>, <<[Priority |-> TRUE, ExecutionTime |-> 2000000, PID |-> 1]>> }

\* the policies of the two instances: two instances of one policy, the two
\* modes of SimplePlugin, and the two types
PairModes ==
    { <<"gthulhu", "gthulhu">>, <<"simple", "simple-fifo">>,
      <<"simple", "gthulhu">> }

\* The memory of the process.  A heap maps an address to the object
\* allocated there: a struct, the array a slice refers to, or a map.  In a
\* struct the fields taskPool and strategyMap hold the address of the array
\* and of the map; two structs whose fields hold one address share the
\* object.

\* the address an allocation returns: one that holds no object
Alloc(heap) ==
    CHOOSE a \in 1..(Cardinality(DOMAIN heap) + 1) :
       /\ a \notin DOMAIN heap
       /\ \A b \in 1..(a - 1) : b \in DOMAIN heap

\* make(...) and &T{...}: the heap with the object at a new address, and
\* the address
Make(heap, object) ==
    [heap |-> (Alloc(heap) :> object) @@ heap, addr |-> Alloc(heap)]

\* The package gthulhu declares a pool and a strategy map of its own at
\* package level, made when the package is initialised, before any plugin:
\* "var taskPool = make([]Task, taskPoolSize)" and
\* "var strategyMap = make(map[int32]SchedulingStrategy)".  For each, the
\* heap after the declaration and the address the variable holds.
PackageTaskPool == Make(<<>>, [i \in 0..(taskPoolSize - 1) |-> ZeroTask])

PackageStrategyMap == Make(PackageTaskPool.heap, StrategyMapOf(<<>>))

\* The variables of the package that its functions InsertTaskToPool,
\* GetTaskFromPool and UpdateStrategyMap read and assign, kept as one
\* object: taskPool, taskPoolCount, taskPoolHead, taskPoolTail and
\* strategyMap.  The heap when the package is initialised and the address
\* of the object.
PackageVars ==
    Make(PackageStrategyMap.heap,
         [taskPool |-> PackageTaskPool.addr, taskPoolCount |-> 0,
          taskPoolHead |-> 0, taskPoolTail |-> 0,
          strategyMap |-> PackageStrategyMap.addr])

\* LessQueuedTask of the package
LessQueuedTask(a, b) ==
    IF a.Deadline # b.Deadline THEN a.Deadline < b.Deadline
    ELSE IF a.Timestamp # b.Timestamp THEN a.Timestamp < b.Timestamp
    ELSE a.QueuedTask.Pid < b.QueuedTask.Pid

\* InsertTaskToPool of the package, on its variables pk: the variables
\* after the call and what it returns.  The pool is a ring from
\* taskPoolHead to taskPoolTail, kept in the order of LessQueuedTask.
InsertTaskToPool(pk, newTask) ==
    LET before == { i \in 0..(pk.taskPoolCount - 1) :
                      LessQueuedTask(newTask,
                         pk.taskPool[(pk.taskPoolHead + i) % taskPoolSize]) }
        first == CHOOSE i \in before : \A k \in before : i <= k
        insertIdx == IF before = {} THEN pk.taskPoolTail
                     ELSE (pk.taskPoolHead + first) % taskPoolSize
        RECURSIVE shift(_, _)
        shift(pool, cur) ==
            IF cur = insertIdx THEN pool
            ELSE LET next == (cur - 1 + taskPoolSize) % taskPoolSize
                 IN  shift([pool EXCEPT ![cur] = pool[next]], next)
    IN  IF pk.taskPoolCount >= taskPoolSize - 1
        THEN [pk |-> pk, ok |-> FALSE]
        ELSE [pk |-> [pk EXCEPT
                        !.taskPool = [shift(@, pk.taskPoolTail) EXCEPT
                                         ![insertIdx] = newTask],
                        !.taskPoolTail = (@ + 1) % taskPoolSize,
                        !.taskPoolCount = @ + 1],
              ok |-> TRUE]

\* GetTaskFromPool of the package, on its variables pk: the variables
\* after the call and the task it returns (nil: none)
GetTaskFromPool(pk) ==
    IF pk.taskPoolHead = pk.taskPoolTail
    THEN [pk |-> pk, task |-> NilQueuedTask]
    ELSE [pk |-> [pk EXCEPT !.taskPoolHead = (@ + 1) % taskPoolSize,
                            !.taskPoolCount = @ - 1],
          task |-> pk.taskPool[pk.taskPoolHead].QueuedTask]

\* the plugin a pointer refers to, as its methods read it (or the variables
\* of the package, as its functions read them): the fields of the struct,
\* and for taskPool and strategyMap what is at the address
Load(heap, a) ==
    LET pooled == [heap[a] EXCEPT !.taskPool = heap[@]]
    IN  IF "strategyMap" \in DOMAIN heap[a]
        THEN [pooled EXCEPT !.strategyMap = heap[@]]
        ELSE pooled

\* The heap after a method has left the plugin of the pointer a as v by
\* assignments to the fields of its receiver and to the elements of
\* g.taskPool (s.taskPool): the scalars are written to the struct, the pool
\* to the array the struct refers to.  These methods write no entry of the
\* strategy map.  The same for a function of the package and the variables
\* of the package.
Store(heap, a, v) ==
    LET pooled == [v EXCEPT !.taskPool = heap[a].taskPool]
    IN  [heap EXCEPT
            ![a] = IF "strategyMap" \in DOMAIN heap[a]
                   THEN [pooled EXCEPT !.strategyMap = heap[a].strategyMap]
                   ELSE pooled,
            ![heap[a].taskPool] = v.taskPool]

\* whether the map that the object at a refers to (a plugin, or the
\* variables of the package) is one that another plugin or the package
\* refers to as well
SharedStrategyMap(heap, plugin, a) ==
    \E b \in ({PackageVars.addr} \cup { plugin[i].ref : i \in DOMAIN plugin })
              \ {a} :
       /\ "strategyMap" \in DOMAIN heap[b]
       /\ heap[b].strategyMap = heap[a].strategyMap

\* "g.strategyMap = newMap" on the plugin of the pointer a, and
\* "strategyMap = newMap" on the variables of the package, newMap made by
\* the call: the field refers to the new map.  The map it referred to stays
\* as it is; when nothing else refers to it, it is collected, and since the
\* program cannot observe an address the new map is given the address of
\* the collected one.
AssignStrategyMap(heap, plugin, a, newMap) ==
    IF SharedStrategyMap(heap, plugin, a)
    THEN [Make(heap, newMap).heap EXCEPT
             ![a].strategyMap = Make(heap, newMap).addr]
    ELSE [heap EXCEPT ![heap[a].strategyMap] = newMap]

\* a faulty constructor: the pool of the new plugin is the pool of the
\* package
NewGthulhuPlugin_alloc_PackagePool(heap, sliceNsDefault, sliceNsMin) ==
    LET v == NewGthulhuPlugin(sliceNsDefault, sliceNsMin)
        map == Make(heap, v.strategyMap)
    IN  Make(map.heap, [v EXCEPT !.taskPool = PackageTaskPool.addr,
                                 !.strategyMap = map.addr])

\* NewGthulhuPlugin in memory: "taskPool: make([]Task, taskPoolSize)",
\* "strategyMap: make(map[int32]SchedulingStrategy)" and the struct
\* "&GthulhuPlugin{...}" that refers to them.  The heap after the call and
\* the pointer returned.
NewGthulhuPlugin_alloc(heap, sliceNsDefault, sliceNsMin) ==
    LET v == NewGthulhuPlugin(sliceNsDefault, sliceNsMin)
        pool == Make(heap, v.taskPool)
        map == Make(pool.heap, v.strategyMap)
    IN  Make(map.heap, [v EXCEPT !.taskPool = pool.addr,
                                 !.strategyMap = map.addr])

\* NewSimplePlugin in memory, called by the factory of the mode:
\* "taskPool: make([]Task, 0)" and the struct "&SimplePlugin{...}".  The
\* slice s.taskPool is modelled by the array it refers to.
NewSimplePlugin_alloc(heap, fifoMode, sliceNsDefault) ==
    LET v == SimpleFactory(fifoMode, sliceNsDefault)
        pool == Make(heap, v.taskPool)
    IN  Make(pool.heap, [v EXCEPT !.taskPool = pool.addr])

\* An instance as the test creates it: a GthulhuPlugin by
\* NewGthulhuPlugin(slice, slice), with no strategy fetcher started; a
\* SimplePlugin as the factory of its mode makes it for
\* config.Scheduler.SliceNsDefault = slice.  The heap after the creation
\* and, for the instance, the pointer the constructor returned, the number
\* of tasks it has admitted and the call of DrainQueuedTask its dispatch
\* goroutine is in.
Created(heap, m, slice) ==
    LET new == IF m = "gthulhu" THEN NewGthulhuPlugin_alloc(heap, slice, slice)
               ELSE NewSimplePlugin_alloc(heap, m = "simple-fifo", slice)
    IN  [heap |-> new.heap,
         x |-> [mode |-> m, ref |-> new.addr, admitted |-> 0,
                call |-> NoDispatch]]

\* the plugin of the instance i in the memory mem, as its methods read it
View(mem, i) == Load(mem.heap, mem.plugin[i].ref)

\* the memory after DrainQueuedTask on the SimplePlugin instance i with the
\* given queue at its source
InstDrain(mem, i, source) ==
    LET x == mem.plugin[i]
        r == Simple_DrainQueuedTask(View(mem, i), source, x.admitted)
    IN  [heap |-> Store(mem.heap, x.ref, r.s),
         plugin |-> [mem.plugin EXCEPT ![i].admitted = @ + r.admitted]]

\* the memory after one step of the call of DrainQueuedTask the
\* GthulhuPlugin instance i is in, next what the source hands out; a panic
\* leaves the call where it was
InstDrainStep(mem, i, next) ==
    LET x == mem.plugin[i]
        r == drainQueuedTask(View(mem, i), x.call, next, x.admitted + 1)
    IN  [heap |-> Store(mem.heap, x.ref, r.g),
         plugin |->
            [mem.plugin EXCEPT
                ![i].admitted = IF r.inserted THEN @ + 1 ELSE @,
                ![i].call = IF r.out = "step" THEN r.c
                            ELSE IF r.out = "panic" THEN [r.c EXCEPT !.pc = "panic"]
                            ELSE NoDispatch]]

\* the memory after SelectQueuedTask on the instance i
InstSelect(mem, i) ==
    [mem EXCEPT
        !.heap = Store(@, mem.plugin[i].ref,
                       IF mem.plugin[i].mode = "gthulhu"
                       THEN Gthulhu_getTaskFromPool(View(mem, i)).g
                       ELSE Simple_getTaskFromPool(View(mem, i)).s)]

PairInit ==
    /\ mode = "gthulhu"
    /\ s = NewSimplePlugin(FALSE)
    /\ g = NewGthulhuPlugin(0, 0)
    /\ admitted = 0
    /\ selected = <<>>
    /\ strategy = NoStrategy
    /\ ret = [op |-> "call", on |-> 2]
    /\ refresh = NoRefresh
    /\ ctx = Background
    /\ ticker = NoTicker
    /\ strategyMu = FreeRW
    /\ poolMu = Free
    /\ dispatch = NoDispatch
    /\ observer = NoObserver
    /\ registry = NoRegistry
    /\ \E m \in PairModes :
          LET first == Created(PackageVars.heap, m[1], 0)
              second == Created(first.heap, m[2], 20000 * 1000)
          IN  inst = [heap |-> second.heap, plugin |-> <<first.x, second.x>>]

\* a call on the instance i, or with i = 0 a call of a function of the
\* package gthulhu, which leaves the memory as mem; a call that panics ends
\* the process
PairCall(i, mem) ==
    /\ Running
    /\ inst' = mem
    /\ ret' = [op |-> IF i \in Instances /\ mem.plugin[i].call.pc = "panic"
                      THEN "panic" ELSE "call",
               on |-> i]
    /\ UNCHANGED <<mode, s, g, admitted, selected, strategy>>
    /\ UNCHANGED <<refresh, ctx, ticker, strategyMu, poolMu, dispatch, observer, registry>>

\* DrainQueuedTask on a SimplePlugin
PairDrain ==
    \E i \in Instances :
       /\ inst.plugin[i].mode # "gthulhu"
       /\ \E source \in SourcesOf(PairTasks,
                                  PairLimit - inst.plugin[i].admitted) :
             PairCall(i, InstDrain(inst, i, source))

\* the dispatch goroutine of a GthulhuPlugin calls DrainQueuedTask
PairDrainCall ==
    \E i \in Instances :
       /\ inst.plugin[i].mode = "gthulhu"
       /\ inst.plugin[i].call.pc = "idle"
       /\ PairCall(i, [inst EXCEPT
                          !.plugin[i].call = DrainCalled(View(inst, i))])

\* one step of a call of DrainQueuedTask in progress on a GthulhuPlugin
PairDrainStep ==
    \E i \in Instances :
       /\ inst.plugin[i].call.pc \in DrainPlaces
       /\ \E next \in IF inst.plugin[i].call.pc # "dequeue" THEN {NilQueuedTask}
                      ELSE Handed(IF inst.plugin[i].admitted < PairLimit
                                  THEN PairTasks ELSE {}) :
             PairCall(i, InstDrainStep(inst, i, next))

\* SelectQueuedTask, by the dispatch goroutine of the instance
PairSelect ==
    \E i \in Instances :
       /\ inst.plugin[i].call.pc = "idle"
       /\ PairCall(i, InstSelect(inst, i))

\* UpdateStrategyMap: the map it has built is assigned to g.strategyMap
PairUpdateStrategyMap ==
    \E i \in Instances :
       /\ inst.plugin[i].mode = "gthulhu"
       /\ \E strategies \in PairStrategyLists :
             PairCall(i,
                      [inst EXCEPT !.heap =
                          AssignStrategyMap(@, inst.plugin, inst.plugin[i].ref,
                             UpdateStrategyMap(View(inst, i), strategies).strategyMap)])

PairSetSchedulerConfig ==
    \E i \in Instances :
       /\ inst.plugin[i].mode = "gthulhu"
       /\ \E slice \in PairSlices :
             PairCall(i,
                      [inst EXCEPT !.heap =
                          Store(@, inst.plugin[i].ref,
                                SetSchedulerConfig(View(inst, i), slice, slice))])

PairSetMode ==
    \E i \in Instances :
       /\ inst.plugin[i].mode # "gthulhu"
       /\ \E fifoMode \in BOOLEAN :
             PairCall(i,
                      [inst EXCEPT !.heap =
                          Store(@, inst.plugin[i].ref,
                                SetMode(View(inst, i), fifoMode))])

PairSetSliceDefault ==
    \E i \in Instances :
       /\ inst.plugin[i].mode # "gthulhu"
       /\ \E slice \in PairSlices :
             PairCall(i,
                      [inst EXCEPT !.heap =
                          Store(@, inst.plugin[i].ref,
                                SetSliceDefault(View(inst, i), slice))])

\* InsertTaskToPool of the package gthulhu, as its drainQueuedTask calls
\* it: the pool of the package is given one task over a run
PairInsertTaskToPool ==
    /\ Load(inst.heap, PackageVars.addr).taskPoolTail < PairLimit
    /\ \E t \in PairTasks :
          PairCall(0, [inst EXCEPT !.heap =
                          Store(@, PackageVars.addr,
                                InsertTaskToPool(Load(inst.heap, PackageVars.addr),
                                                 DrainTask(t)).pk)])

\* GetTaskFromPool of the package gthulhu
PairGetTaskFromPool ==
    /\ Running
    /\ PairCall(0, [inst EXCEPT !.heap =
                       Store(@, PackageVars.addr,
                             GetTaskFromPool(Load(inst.heap, PackageVars.addr)).pk)])

\* UpdateStrategyMap of the package gthulhu, called by a test or by the
\* goroutine of the package's StartStrategyFetcher: the map it has built is
\* assigned to the variable strategyMap
PairPackageUpdateStrategyMap ==
    /\ Running
    /\ \E strategies \in PairStrategyLists :
          PairCall(0, [inst EXCEPT !.heap =
                          AssignStrategyMap(@, inst.plugin, PackageVars.addr,
                                            StrategyMapOf(strategies))])

PairNext ==
    \/ PairInsertTaskToPool
    \/ PairGetTaskFromPool
    \/ PairPackageUpdateStrategyMap
    \/ PairDrain
    \/ PairDrainCall
    \/ PairDrainStep
    \/ PairSelect
    \/ PairUpdateStrategyMap
    \/ PairSetSchedulerConfig
    \/ PairSetMode
    \/ PairSetSliceDefault

SpecPair == PairInit /\ [][PairNext]_vars

----------------------------------------------------------------------------
(* The registry of policy constructors.  A PluginFactory is modelled by its  *)
(* name; registry.pluginRegistry is the map of the package and               *)
(* registry.first the history of it: for each mode, the first factory given  *)
(* for it with a name and a factory that are not empty, since the map was    *)
(* last cleared.  In this specification ret holds the call that returned     *)
(* last and, when the call that had returned last when that call was made   *)
(* was a RegisterNewPlugin, its arguments and the error it returned.         *)
(* NewSchedulerPlugin is taken in two steps, the other calls of the package  *)
(* falling between them.                                                     *)

\* a nil PluginFactory
NilFactory == "nil"

\* the factory that init registers for a mode
InitFactory(m) ==
    CASE m = "gthulhu" -> "gthulhu.init"
      [] m = "simple" -> "simple.init"
      [] m = "simple-fifo" -> "simple-fifo.init"

\* pluginRegistry once the init functions of the two policies have run
InitRegistry == [m \in Modes |-> InitFactory(m)]

\* the modes and the factories given to RegisterNewPlugin
RegModes == {"", "duplicate-mode"}

RegFactories == {NilFactory, "factory", "other"}

\* a nil *SchedConfig, and the configurations given to NewSchedulerPlugin
NilConfig == [isNil |-> TRUE, Mode |-> ""]

RegConfigs == {NilConfig} \cup [isNil : {FALSE}, Mode : RegModes \cup {"simple"}]

\* a faulty RegisterNewPlugin: a mode already registered is registered again
RegisterNewPlugin_Overwrite(reg, m, factory) ==
    IF m = ""
    THEN [pluginRegistry |-> reg, err |-> "plugin mode cannot be empty"]
    ELSE IF factory = NilFactory
    THEN [pluginRegistry |-> reg, err |-> "plugin factory cannot be nil"]
    ELSE [pluginRegistry |-> MapPut(reg, m, factory), err |-> "nil"]

RegisterNewPlugin(reg, m, factory) ==
    IF m = ""
    THEN [pluginRegistry |-> reg, err |-> "plugin mode cannot be empty"]
    ELSE IF factory = NilFactory
    THEN [pluginRegistry |-> reg, err |-> "plugin factory cannot be nil"]
    ELSE IF m \in DOMAIN reg
    THEN [pluginRegistry |-> reg, err |-> "plugin mode is already registered"]
    ELSE [pluginRegistry |-> MapPut(reg, m, factory), err |-> "nil"]

\* a faulty NewSchedulerPlugin: a mode that is not registered falls back to
\* the policy "simple"
NewSchedulerPlugin_Fallback(reg, config) ==
    IF config.isNil
    THEN [invoked |-> "none", err |-> "config cannot be nil"]
    ELSE IF config.Mode \notin DOMAIN reg
    THEN [invoked |-> "simple.init", err |-> "nil"]
    ELSE [invoked |-> reg[config.Mode], err |-> "nil"]

\* the factory NewSchedulerPlugin invokes, and its error
NewSchedulerPlugin(reg, config) ==
    IF config.isNil
    THEN [invoked |-> "none", err |-> "config cannot be nil"]
    ELSE IF config.Mode \notin DOMAIN reg
    THEN [invoked |-> "none", err |-> "unknown plugin mode"]
    ELSE [invoked |-> reg[config.Mode], err |-> "nil"]

\* the slices that ranging over the keys and appending each can build: Go
\* ranges over a map in an order that is not specified
RECURSIVE RangeAppend(_, _)
RangeAppend(modes, keys) ==
    IF keys = {} THEN {modes}
    ELSE UNION { RangeAppend(Append(modes, k), keys \ {k}) : k \in keys }

\* a faulty GetRegisteredModes: make([]string, len(pluginRegistry)), so the
\* slice starts with as many empty strings as there are modes
GetRegisteredModes_MakeLen(reg) ==
    RangeAppend([i \in 1..Cardinality(DOMAIN reg) |-> ""], DOMAIN reg)

\* the slices GetRegisteredModes may return
GetRegisteredModes(reg) == RangeAppend(<<>>, DOMAIN reg)

ClearRegistryForTests == [m \in {} |-> NilFactory]

\* SnapshotRegistryForTests: the copy it returns
SnapshotRegistryForTests(reg) == [k \in DOMAIN reg |-> reg[k]]

\* RestoreRegistryForTests(m): pluginRegistry = m, the map given and no copy
\* of it
RestoreRegistryForTests(m) == m

\* a call of the registry package and what it returned; registered is, for
\* NewSchedulerPlugin, the factory that was registered first under the mode
\* when the call read the registry
RegCall(op, m, factory, err, invoked, modes, registered) ==
    [op |-> op, mode |-> m, factory |-> factory, err |-> err,
     invoked |-> invoked, modes |-> modes, registered |-> registered]

\* what is kept of the call before: of a RegisterNewPlugin the mode, the
\* factory and the error, of another call that it was another
RegBefore(call) ==
    IF call.op = "register"
    THEN [op |-> call.op, mode |-> call.mode, factory |-> call.factory,
          err |-> call.err]
    ELSE [op |-> "other", mode |-> "", factory |-> NilFactory, err |-> "nil"]

\* the call returns: prev is the call that had returned last when it was made
RegReturn(call, prev) ==
    /\ ret' = [call |-> call, prev |-> prev]
    /\ UNCHANGED <<mode, s, g, admitted, selected, strategy>>
    /\ UNCHANGED <<refresh, ctx, ticker, strategyMu, poolMu, observer, inst>>

\* no snapshot of the registry has been taken
NoSnapshot == [taken |-> FALSE, m |-> ClearRegistryForTests,
               first |-> ClearRegistryForTests]

\* registry.snapshot is the map SnapshotRegistryForTests returned last, with
\* the history of the registry at that moment; registry.aliased tells that
\* pluginRegistry is that very map, which RestoreRegistryForTests has put
\* in its place
RegInit ==
    /\ mode = "gthulhu"
    /\ s = NewSimplePlugin(FALSE)
    /\ g = NewGthulhuPlugin(0, 0)
    /\ admitted = 0
    /\ selected = <<>>
    /\ strategy = NoStrategy
    /\ ret = [call |-> RegCall("init", "", NilFactory, "nil", "none", <<>>,
                              NilFactory),
              prev |-> RegBefore(RegCall("init", "", NilFactory, "nil", "none",
                                         <<>>, NilFactory))]
    /\ refresh = NoRefresh
    /\ ctx = Background
    /\ ticker = NoTicker
    /\ strategyMu = FreeRW
    /\ poolMu = Free
    /\ dispatch = NoDispatch
    /\ observer = NoObserver
    /\ inst = <<>>
    /\ registry = [pluginRegistry |-> InitRegistry, first |-> InitRegistry,
                   snapshot |-> NoSnapshot, aliased |-> FALSE]

\* RegisterNewPlugin, the whole call under registryMutex.  A map that
\* RestoreRegistryForTests has put in place is the snapshot itself: what is
\* stored in the one is stored in the other.
RegRegister ==
    \E m \in RegModes, factory \in RegFactories :
       LET r == RegisterNewPlugin(registry.pluginRegistry, m, factory)
           first == IF m # "" /\ factory # NilFactory
                       /\ m \notin DOMAIN registry.first
                    THEN MapPut(registry.first, m, factory)
                    ELSE registry.first
       IN  /\ registry' =
                [registry EXCEPT
                    !.pluginRegistry = r.pluginRegistry,
                    !.first = first,
                    !.snapshot = IF registry.aliased
                                 THEN [taken |-> TRUE, m |-> r.pluginRegistry,
                                       first |-> first]
                                 ELSE @]
           /\ UNCHANGED dispatch
           /\ RegReturn(RegCall("register", m, factory, r.err, "none", <<>>,
                                NilFactory),
                        RegBefore(ret.call))

\* NewSchedulerPlugin up to registryMutex.RUnlock(): the test of config and,
\* for a config that is not nil, the lookup under the read lock.  saw is
\* what the lookup found (factory, exists): the entry of config.Mode, or none.
RegCreate ==
    /\ Idle
    /\ \E config \in RegConfigs :
          dispatch' =
             [pc |-> "create", config |-> config,
              saw |-> IF config.isNil THEN ClearRegistryForTests
                      ELSE [k \in DOMAIN registry.pluginRegistry \cap {config.Mode} |->
                               registry.pluginRegistry[k]],
              prev |-> RegBefore(ret.call),
              registered |-> IF config.isNil
                                \/ config.Mode \notin DOMAIN registry.first
                             THEN NilFactory
                             ELSE registry.first[config.Mode]]
    /\ UNCHANGED <<mode, s, g, admitted, selected, strategy, ret>>
    /\ UNCHANGED <<refresh, ctx, ticker, strategyMu, poolMu, observer, registry, inst>>

\* NewSchedulerPlugin from the test of exists: the error, or the call of the
\* factory found, and the return
RegCreateReturn ==
    /\ dispatch.pc = "create"
    /\ LET r == NewSchedulerPlugin(dispatch.saw, dispatch.config)
       IN  RegReturn(RegCall("create", dispatch.config.Mode, NilFactory, r.err,
                             r.invoked, <<>>, dispatch.registered),
                     dispatch.prev)
    /\ dispatch' = NoDispatch
    /\ UNCHANGED registry

RegList ==
    \E modes \in GetRegisteredModes(registry.pluginRegistry) :
       /\ UNCHANGED <<registry, dispatch>>
       /\ RegReturn(RegCall("list", "", NilFactory, "nil", "none", modes,
                            NilFactory),
                    RegBefore(ret.call))

RegClear ==
    /\ registry' = [registry EXCEPT !.pluginRegistry = ClearRegistryForTests,
                                    !.first = ClearRegistryForTests,
                                    !.aliased = FALSE]
    /\ UNCHANGED dispatch
    /\ RegReturn(RegCall("clear", "", NilFactory, "nil", "none", <<>>,
                         NilFactory),
                 RegBefore(ret.call))

RegSnapshot ==
    /\ registry' =
          [registry EXCEPT
              !.snapshot = [taken |-> TRUE,
                            m |-> SnapshotRegistryForTests(registry.pluginRegistry),
                            first |-> registry.first],
              !.aliased = FALSE]
    /\ UNCHANGED dispatch
    /\ RegReturn(RegCall("snapshot", "", NilFactory, "nil", "none", <<>>,
                         NilFactory),
                 RegBefore(ret.call))

\* RestoreRegistryForTests with the map SnapshotRegistryForTests returned last
RegRestore ==
    /\ registry.snapshot.taken
    /\ registry' =
          [registry EXCEPT
              !.pluginRegistry = RestoreRegistryForTests(registry.snapshot.m),
              !.first = registry.snapshot.first,
              !.aliased = TRUE]
    /\ UNCHANGED dispatch
    /\ RegReturn(RegCall("restore", "", NilFactory, "nil", "none", <<>>,
                         NilFactory),
                 RegBefore(ret.call))

RegNext ==
    \/ RegRegister
    \/ RegCreate
    \/ RegCreateReturn
    \/ RegList
    \/ RegClear
    \/ RegSnapshot
    \/ RegRestore

SpecRegistry == RegInit /\ [][RegNext]_vars

----------------------------------------------------------------------------
(* Creation through the factory.  A constructor either returns a pair        *)
(* (instance, error) or panics; a panic unwinds through NewSchedulerPlugin,  *)
(* which recovers nothing.  In this specification ret holds the last call:   *)
(* for a creation, its arguments, the constructor calls it made and its      *)
(* outcome.                                                                  *)

\* a nil CustomScheduler
NilInstance == [type |-> "nil"]

\* &mockScheduler{mode: m}
MockScheduler(m) == [type |-> "mock", mode |-> m]

EmptyAPIConfig == [PublicKeyPath |-> "", BaseURL |-> "", Interval |-> 0]

\* a *SchedConfig that is not nil
SchedConfig(m, sliceNsDefault, sliceNsMin, api) ==
    [isNil |-> FALSE, Mode |-> m,
     Scheduler |-> [SliceNsDefault |-> sliceNsDefault, SliceNsMin |-> sliceNsMin],
     APIConfig |-> api]

\* what a constructor does: it returns (instance, err), or it panics
Returns(instance, err) == [kind |-> "return", instance |-> instance, err |-> err]

Panics(value) == [kind |-> "panic", instance |-> NilInstance, err |-> value]

\* time.NewTicker(d): it panics unless d is positive
NewTicker(d) == IF d <= 0 THEN "panic" ELSE "ticker"

\* StartStrategyFetcher up to the go statement: the ticker is made by the
\* caller, before the goroutine exists
StartStrategyFetcher(c, apiUrl, interval) ==
    IF NewTicker(interval) = "panic"
    THEN [kind |-> "panic", started |-> FALSE, ctx |-> c, apiUrl |-> apiUrl,
          interval |-> interval]
    ELSE [kind |-> "return", started |-> TRUE, ctx |-> c, apiUrl |-> apiUrl,
          interval |-> interval]

\* the factory init registers for "gthulhu"
GthulhuFactory(c, config) ==
    LET gp == NewGthulhuPlugin(config.Scheduler.SliceNsDefault,
                               config.Scheduler.SliceNsMin)
        jwt == /\ config.APIConfig.PublicKeyPath # ""
               /\ config.APIConfig.BaseURL # ""
        f == StartStrategyFetcher(c, config.APIConfig.BaseURL,
                                  config.APIConfig.Interval)
    IN  IF f.kind = "panic"
        THEN Panics("non-positive interval for NewTicker")
        ELSE Returns([type |-> "gthulhu", p |-> gp, jwtClient |-> jwt,
                      metricsClient |-> jwt, fetcher |-> f], "nil")

\* the call factory(ctx, config) of the factory with the given name
Invoke(factory, c, config) ==
    CASE factory = "gthulhu.init" -> GthulhuFactory(c, config)
      [] factory = "simple.init" ->
            Returns([type |-> "simple",
                     p |-> SimpleFactory(FALSE, config.Scheduler.SliceNsDefault)],
                    "nil")
      [] factory = "simple-fifo.init" ->
            Returns([type |-> "simple",
                     p |-> SimpleFactory(TRUE, config.Scheduler.SliceNsDefault)],
                    "nil")
      [] factory = "failing" -> Returns(NilInstance, "factory error")
      [] OTHER -> Returns(MockScheduler(config.Mode), "nil")

\* the whole of NewSchedulerPlugin(ctx, config): the constructor calls it made
\* and what came of it
NewSchedulerPlugin_factory(reg, c, config) ==
    LET r == NewSchedulerPlugin(reg, config)
    IN  IF r.invoked = "none"
        THEN [calls |-> <<>>, kind |-> "return", instance |-> NilInstance,
              err |-> r.err]
        ELSE LET f == Invoke(r.invoked, c, config)
             IN  [calls |-> << [factory |-> r.invoked, ctx |-> c,
                                config |-> config] >>,
                  kind |-> f.kind, instance |-> f.instance, err |-> f.err]

CreateModes == {"gthulhu", "simple", "simple-fifo", "test-plugin", "unknown-mode"}

CreateSlices == {0, 5000 * 1000}

CreateAPIConfigs ==
    [PublicKeyPath : {"", "key.pem"}, BaseURL : {"", "http://api"},
     Interval : {0, 5}]

CreateConfigs ==
    {NilConfig} \cup
    { SchedConfig(m, slice, slice \div 10, api) :
         m \in CreateModes, slice \in CreateSlices, api \in CreateAPIConfigs }

CreateFactories == {"capture", "failing"}

CreateInit ==
    /\ mode = "gthulhu"
    /\ s = NewSimplePlugin(FALSE)
    /\ g = NewGthulhuPlugin(0, 0)
    /\ admitted = 0
    /\ selected = <<>>
    /\ strategy = NoStrategy
    /\ ret = [op |-> "init"]
    /\ refresh = NoRefresh
    /\ ctx \in {Background, [done |-> TRUE]}
    /\ ticker = NoTicker
    /\ strategyMu = FreeRW
    /\ poolMu = Free
    /\ dispatch = NoDispatch
    /\ observer = NoObserver
    /\ inst = <<>>
    /\ registry = [pluginRegistry |-> InitRegistry, first |-> InitRegistry]

CreateReturn(call) ==
    /\ ret' = call
    /\ UNCHANGED <<mode, s, g, admitted, selected, strategy>>
    /\ UNCHANGED <<refresh, ctx, ticker, strategyMu, poolMu, observer, inst>>

CreateRegister ==
    \E factory \in CreateFactories :
       LET r == RegisterNewPlugin(registry.pluginRegistry, "test-plugin", factory)
       IN  /\ registry' =
                [pluginRegistry |-> r.pluginRegistry,
                 first |-> IF "test-plugin" \notin DOMAIN registry.first
                           THEN MapPut(registry.first, "test-plugin", factory)
                           ELSE registry.first]
           /\ UNCHANGED dispatch
           /\ CreateReturn([op |-> "register", mode |-> "test-plugin",
                            factory |-> factory, err |-> r.err])

\* NewSchedulerPlugin up to registryMutex.RUnlock(): saw is what the lookup
\* found (factory, exists), registry the map as it was under the read lock
CreateNew ==
    /\ Idle
    /\ \E config \in CreateConfigs :
          dispatch' =
             [pc |-> "create", config |-> config,
              saw |-> IF config.isNil THEN ClearRegistryForTests
                      ELSE [k \in DOMAIN registry.pluginRegistry \cap {config.Mode} |->
                               registry.pluginRegistry[k]],
              registry |-> registry.pluginRegistry]
    /\ UNCHANGED <<mode, s, g, admitted, selected, strategy, ret>>
    /\ UNCHANGED <<refresh, ctx, ticker, strategyMu, poolMu, observer, registry, inst>>

\* NewSchedulerPlugin from the test of exists: the error, or the call of the
\* factory found, and what comes of it
CreateNewReturn ==
    /\ dispatch.pc = "create"
    /\ LET r == NewSchedulerPlugin_factory(dispatch.saw, ctx, dispatch.config)
       IN  CreateReturn([op |-> "create", ctx |-> ctx, config |-> dispatch.config,
                         registry |-> dispatch.registry,
                         calls |-> r.calls, kind |-> r.kind,
                         instance |-> r.instance, err |-> r.err])
    /\ dispatch' = NoDispatch
    /\ UNCHANGED registry

CreateNext ==
    \/ CreateRegister
    \/ CreateNew
    \/ CreateNewReturn

SpecCreate == CreateInit /\ [][CreateNext]_vars

----------------------------------------------------------------------------
(* Concurrent calls of the registry.  Each goroutine makes one call after    *)
(* another; a call is taken in the steps that registryMutex separates.  In   *)
(* this specification ret holds, for each goroutine, the stack of the calls  *)
(* it is in (a constructor may call the registry itself), and registry holds *)
(* also registryMutex and a history: wins counts, for each mode, the calls   *)
(* that stored a factory for it, and returned maps a mode to the factory of  *)
(* a registration of it that has returned nil.                               *)

Callers == {"g1", "g2"}

ConcModes == {"concurrent-mode-0", "concurrent-mode-1"}

\* the constructors registered: one that returns at once, one that calls
\* RegisterNewPlugin, one that calls GetRegisteredModes, one that blocks
ConcFactories == {"factory", "registering", "listing", "blocking"}

\* the registrations the goroutines attempt: two constructors for each mode
ConcRegistrations ==
    { <<"concurrent-mode-0", "factory">>, <<"concurrent-mode-0", "registering">>,
      <<"concurrent-mode-1", "listing">>, <<"concurrent-mode-1", "blocking">> }

\* the mode that the constructor "registering" registers
NestedMode == "nested-mode"

\* a call of a goroutine: op(mode, factory) at the position pc, with what it
\* has computed so far; saw is, for NewSchedulerPlugin, registry.returned
\* when the call started
Frame(op, m, factory, saw) ==
    [op |-> op, pc |-> "start", mode |-> m, factory |-> factory,
     err |-> "nil", invoked |-> "none", modes |-> {}, saw |-> saw]

NoneReturned == ClearRegistryForTests

\* the call on top of the stack of a goroutine
Top(stack) == stack[Len(stack)]

SetTop(stack, frame) == [stack EXCEPT ![Len(stack)] = frame]

InCall(t, op, pc) ==
    /\ ret[t] # <<>>
    /\ Top(ret[t]).op = op
    /\ Top(ret[t]).pc = pc

\* a faulty registryMutex.Lock: it excludes nobody
RegistryLock_None(mu, t) == [ok |-> TRUE, mu |-> mu]

\* registryMutex.Lock by t: it waits while anyone holds the lock
RegistryLock(mu, t) ==
    IF mu.writer = "none" /\ mu.readers = {}
    THEN [ok |-> TRUE, mu |-> [mu EXCEPT !.writer = t]]
    ELSE [ok |-> FALSE, mu |-> mu]

RegistryUnlock(mu, t) ==
    IF mu.writer = t THEN [mu EXCEPT !.writer = "none"] ELSE mu

\* registryMutex.RLock by t: it waits while a writer holds the lock
RegistryRLock(mu, t) ==
    IF mu.writer = "none"
    THEN [ok |-> TRUE, mu |-> [mu EXCEPT !.readers = @ \cup {t}]]
    ELSE [ok |-> FALSE, mu |-> mu]

\* a faulty NewSchedulerPlugin: it keeps the read lock while the constructor
\* runs
RegistryRUnlock_Deferred(mu, t, op) ==
    IF op = "create" THEN mu ELSE [mu EXCEPT !.readers = @ \ {t}]

\* registryMutex.RUnlock by t, in the call op
RegistryRUnlock(mu, t, op) == [mu EXCEPT !.readers = @ \ {t}]

ConcInit ==
    /\ mode = "gthulhu"
    /\ s = NewSimplePlugin(FALSE)
    /\ g = NewGthulhuPlugin(0, 0)
    /\ admitted = 0
    /\ selected = <<>>
    /\ strategy = NoStrategy
    /\ ret = [t \in Callers |-> <<>>]
    /\ refresh = NoRefresh
    /\ ctx = Background
    /\ ticker = NoTicker
    /\ strategyMu = FreeRW
    /\ poolMu = Free
    /\ dispatch = NoDispatch
    /\ observer = NoObserver
    /\ inst = <<>>
    /\ registry = [pluginRegistry |-> ClearRegistryForTests,
                   first |-> ClearRegistryForTests,
                   registryMutex |-> FreeRW,
                   wins |-> [m \in ConcModes \cup {NestedMode} |-> 0],
                   returned |-> ClearRegistryForTests]

ConcStep(t, stack) ==
    /\ ret' = [ret EXCEPT ![t] = stack]
    /\ UNCHANGED <<mode, s, g, admitted, selected, strategy>>
    /\ UNCHANGED <<refresh, ctx, ticker, strategyMu, poolMu, dispatch, observer, inst>>

\* a goroutine that is in no call begins one
ConcCall(t) ==
    /\ ret[t] = <<>>
    /\ \/ \E r \in ConcRegistrations :
             ConcStep(t, << Frame("register", r[1], r[2], NoneReturned) >>)
       \/ \E m \in ConcModes :
             ConcStep(t, << Frame("create", m, NilFactory, registry.returned) >>)
       \/ ConcStep(t, << Frame("list", "", NilFactory, NoneReturned) >>)
    /\ UNCHANGED registry

\* a call returns: the goroutine leaves it, a constructor goes on
Return(stack) == SubSeq(stack, 1, Len(stack) - 1)

\* RegisterNewPlugin: registryMutex.Lock()
ConcLock(t) ==
    /\ InCall(t, "register", "start")
    /\ LET l == RegistryLock(registry.registryMutex, t)
       IN  /\ l.ok
           /\ registry' = [registry EXCEPT !.registryMutex = l.mu]
    /\ ConcStep(t, SetTop(ret[t], [Top(ret[t]) EXCEPT !.pc = "locked"]))

\* RegisterNewPlugin: the three checks
ConcCheck(t) ==
    /\ InCall(t, "register", "locked")
    /\ LET f == Top(ret[t])
           r == RegisterNewPlugin(registry.pluginRegistry, f.mode, f.factory)
       IN  ConcStep(t, SetTop(ret[t],
                      [f EXCEPT !.err = r.err,
                                !.pc = IF r.err = "nil" THEN "store" ELSE "unlock"]))
    /\ UNCHANGED registry

\* RegisterNewPlugin: pluginRegistry[mode] = factory
ConcStore(t) ==
    /\ InCall(t, "register", "store")
    /\ LET f == Top(ret[t])
       IN  /\ registry' =
                [registry EXCEPT
                    !.pluginRegistry = MapPut(@, f.mode, f.factory),
                    !.first = IF f.mode \in DOMAIN @ THEN @
                              ELSE MapPut(@, f.mode, f.factory),
                    !.wins[f.mode] = @ + 1]
           /\ ConcStep(t, SetTop(ret[t], [f EXCEPT !.pc = "unlock"]))

\* RegisterNewPlugin returns: the deferred registryMutex.Unlock()
ConcUnlock(t) ==
    /\ InCall(t, "register", "unlock")
    /\ LET f == Top(ret[t])
       IN  /\ registry' =
                [registry EXCEPT
                    !.registryMutex = RegistryUnlock(@, t),
                    !.returned = IF f.err = "nil" /\ f.mode \notin DOMAIN @
                                 THEN MapPut(@, f.mode, f.factory) ELSE @]
           /\ ConcStep(t, Return(ret[t]))

\* NewSchedulerPlugin and GetRegisteredModes: registryMutex.RLock()
ConcRLock(t) ==
    /\ \/ InCall(t, "create", "start")
       \/ InCall(t, "list", "start")
    /\ LET l == RegistryRLock(registry.registryMutex, t)
       IN  /\ l.ok
           /\ registry' = [registry EXCEPT !.registryMutex = l.mu]
    /\ ConcStep(t, SetTop(ret[t], [Top(ret[t]) EXCEPT !.pc = "rlocked"]))

\* NewSchedulerPlugin: factory, exists := pluginRegistry[config.Mode]
ConcLookup(t) ==
    /\ InCall(t, "create", "rlocked")
    /\ LET f == Top(ret[t])
           r == NewSchedulerPlugin(registry.pluginRegistry,
                                   [isNil |-> FALSE, Mode |-> f.mode])
       IN  ConcStep(t, SetTop(ret[t],
                      [f EXCEPT !.factory = r.invoked, !.err = r.err,
                                !.pc = "runlock"]))
    /\ UNCHANGED registry

\* GetRegisteredModes: the range over pluginRegistry
ConcRange(t) ==
    /\ InCall(t, "list", "rlocked")
    /\ \E modes \in GetRegisteredModes(registry.pluginRegistry) :
          ConcStep(t, SetTop(ret[t],
                      [Top(ret[t]) EXCEPT
                          !.modes = { modes[i] : i \in 1..Len(modes) },
                          !.pc = "runlock"]))
    /\ UNCHANGED registry

\* registryMutex.RUnlock(): GetRegisteredModes returns; NewSchedulerPlugin
\* returns its error or goes on to the constructor
ConcRUnlock(t) ==
    /\ \/ InCall(t, "create", "runlock")
       \/ InCall(t, "list", "runlock")
    /\ LET f == Top(ret[t])
       IN  /\ registry' =
                [registry EXCEPT
                    !.registryMutex = RegistryRUnlock(@, t, f.op)]
           /\ ConcStep(t, IF f.op = "create" /\ f.err = "nil"
                          THEN SetTop(ret[t], [f EXCEPT !.pc = "factory"])
                          ELSE Return(ret[t]))

\* NewSchedulerPlugin: return factory(ctx, config), up to the first thing the
\* constructor does
ConcInvoke(t) ==
    /\ InCall(t, "create", "factory")
    /\ LET f == Top(ret[t])
           called == [f EXCEPT !.invoked = f.factory]
       IN  CASE f.factory = "registering" ->
                  ConcStep(t, Append(SetTop(ret[t], [called EXCEPT !.pc = "constructor"]),
                                     Frame("register", NestedMode, "factory",
                                           NoneReturned)))
             [] f.factory = "listing" ->
                  ConcStep(t, Append(SetTop(ret[t], [called EXCEPT !.pc = "constructor"]),
                                     Frame("list", "", NilFactory,
                                           NoneReturned)))
             [] f.factory = "blocking" ->
                  ConcStep(t, SetTop(ret[t], [called EXCEPT !.pc = "blocked"]))
             [] OTHER -> ConcStep(t, Return(ret[t]))
    /\ UNCHANGED registry

\* the call that the constructor made has returned: the constructor returns,
\* and NewSchedulerPlugin with it
ConcConstructorReturn(t) ==
    /\ InCall(t, "create", "constructor")
    /\ ConcStep(t, Return(ret[t]))
    /\ UNCHANGED registry

ConcNext ==
    \E t \in Callers :
       \/ ConcCall(t)
       \/ ConcLock(t)
       \/ ConcCheck(t)
       \/ ConcStore(t)
       \/ ConcUnlock(t)
       \/ ConcRLock(t)
       \/ ConcLookup(t)
       \/ ConcRange(t)
       \/ ConcRUnlock(t)
       \/ ConcInvoke(t)
       \/ ConcConstructorReturn(t)

SpecConc == ConcInit /\ [][ConcNext]_vars

----------------------------------------------------------------------------
(* One SimplePlugin whose mode and slice are changed at run time, between    *)
(* the calls of the dispatch loop.  In this specification ret holds the last *)
(* call and, for the history, the slice configured last: by the factory, or  *)
(* by SetSliceDefault.                                                       *)

\* number of tasks the instance admits over one run of this specification
SwitchAdmitted == 3

SwitchTasks ==
    { SourceTask(1, 6000000, 1000, 2000, 100), SourceTask(2, 0, 1000, 2000, 100) }

\* config.Scheduler.SliceNsDefault at creation, and the argument of
\* SetSliceDefault
SwitchSlices == {0, 10000 * 1000}

\* what DefaultSelectCPU of the source returns: a CPU, any CPU, or an error
DefaultSelectCPUs ==
    { [err |-> "nil", cpu |-> 0], [err |-> "nil", cpu |-> 3],
      [err |-> "nil", cpu |-> 2 ^ 20], [err |-> "no cpu", cpu |-> -1] }

SwitchInit ==
    /\ mode = "simple"
    /\ \E fifoMode \in BOOLEAN, slice \in SwitchSlices :
          /\ s = SimpleFactory(fifoMode, slice)
          /\ ret = [call |-> NoCall,
                    configured |-> IF slice > 0 THEN slice ELSE sliceDefault]
    /\ g = NewGthulhuPlugin(0, 0)
    /\ admitted = 0
    /\ selected = <<>>
    /\ strategy = NoStrategy
    /\ Alone

SwitchReturn(call, configured) ==
    /\ ret' = [call |-> call, configured |-> configured]
    /\ UNCHANGED <<mode, g, strategy>>
    /\ UNCHANGED background

SwitchDrain ==
    \E source \in SourcesOf(SwitchTasks, SwitchAdmitted - admitted) :
       LET r == Simple_DrainQueuedTask(s, source, admitted)
       IN  /\ s' = r.s
           /\ admitted' = admitted + r.admitted
           /\ UNCHANGED selected
           /\ SwitchReturn(Returned("drain", r.count, NilQueuedTask, <<>>,
                                    Len(s.taskPool), Len(source) - Len(r.left),
                                    ValidIn(r.left)),
                           ret.configured)

SwitchSelect ==
    LET r == Simple_getTaskFromPool(s)
    IN  /\ s' = r.s
        /\ selected' = IF r.task = NilQueuedTask THEN selected
                       ELSE Append(selected, r.task.addr)
        /\ UNCHANGED admitted
        /\ SwitchReturn(Returned("select", 0, r.task, r.entry, Len(s.taskPool),
                                 0, 0),
                        ret.configured)

SwitchSetMode ==
    \E fifoMode \in BOOLEAN :
       /\ s' = SetMode(s, fifoMode)
       /\ UNCHANGED <<admitted, selected>>
       /\ SwitchReturn(Returned("mode", 0, NilQueuedTask, <<>>, Len(s.taskPool),
                                0, 0),
                       ret.configured)

\* ResetStats, and the GetStats that reads the counters after it
SwitchResetStats ==
    /\ s' = ResetStats(s)
    /\ UNCHANGED <<admitted, selected>>
    /\ SwitchReturn([op |-> "reset-stats", stats |-> GetStats(ResetStats(s))],
                    ret.configured)

SwitchSetSliceDefault ==
    \E slice \in SwitchSlices :
       /\ s' = SetSliceDefault(s, slice)
       /\ UNCHANGED <<admitted, selected>>
       /\ SwitchReturn(Returned("slice-default", 0, NilQueuedTask, <<>>,
                                Len(s.taskPool), 0, 0),
                       slice)

\* SelectCPU for the task selected last, with a source whose DefaultSelectCPU
\* would return default
SwitchSelectCPU ==
    /\ ret.call.op = "select"
    /\ ret.call.task # NilQueuedTask
    /\ \E default \in DefaultSelectCPUs :
          LET r == Simple_SelectCPU(s, default, ret.call.task)
          IN  SwitchReturn([op |-> "cpu", task |-> ret.call.task,
                            default |-> default, err |-> r.err, cpu |-> r.cpu],
                           ret.configured)
    /\ UNCHANGED <<s, admitted, selected>>

\* DetermineTimeSlice for the task SelectCPU was called for
SwitchDetermineTimeSlice ==
    /\ ret.call.op = "cpu"
    /\ SwitchReturn([op |-> "slice", task |-> ret.call.task,
                     waiting |-> Len(s.taskPool),
                     value |-> Simple_DetermineTimeSlice(s, ret.call.task)],
                    ret.configured)
    /\ UNCHANGED <<s, admitted, selected>>

SwitchNext ==
    \/ SwitchDrain
    \/ SwitchSelect
    \/ SwitchSetMode
    \/ SwitchResetStats
    \/ SwitchSetSliceDefault
    \/ SwitchSelectCPU
    \/ SwitchDetermineTimeSlice

SpecSwitch == SwitchInit /\ [][SwitchNext]_vars

----------------------------------------------------------------------------
(* DrainQueuedTask with a source that hands out a task whenever it is asked  *)
(* and may never signal that it is empty.  The call of SimplePlugin, which   *)
(* takes no lock, is taken one dequeue at a time: its loop is run on the     *)
(* task dequeued, which gives the instance as it is when the loop asks the   *)
(* source again; ret.dequeued counts the tasks the call in progress (op      *)
(* "draining") or the last call (op "drain") has taken from the source.  On  *)
(* the GthulhuPlugin a second goroutine calls DrainQueuedTask as well, once, *)
(* with a source of its own; observer is the call it is in.                  *)

EndlessTasks == { SourceTask(2, 6000000, 1000, 2000, 100) }

\* the model follows a run until the source has handed out this many tasks
EndlessCap == taskPoolSize + 1

EndlessInit ==
    /\ mode \in Modes
    /\ s = SimpleFactory(mode = "simple-fifo", 0)
    /\ g = NewGthulhuPlugin(0, 0)
    /\ admitted = 0
    /\ selected = <<>>
    /\ strategy = NoStrategy
    /\ ret = NoCall
    /\ refresh = NoRefresh
    /\ ctx = Background
    /\ ticker = NoTicker
    /\ strategyMu = FreeRW
    /\ poolMu = Free
    /\ dispatch = NoDispatch
    /\ observer = NoDispatch
    /\ registry = NoRegistry
    /\ inst = <<>>

\* DrainQueuedTask of SimplePlugin is called
EndlessBegin ==
    /\ IsSimple
    /\ Idle
    /\ dispatch' = [dispatch EXCEPT !.pc = "drain"]
    /\ ret' = Returned("draining", 0, NilQueuedTask, <<>>, GetPoolCount, 0, 0)
    /\ UNCHANGED <<mode, s, g, admitted, selected, strategy>>
    /\ UNCHANGED <<refresh, ctx, ticker, strategyMu, poolMu, observer, registry, inst>>

\* the loop of SimplePlugin asks the source, which hands out a task
EndlessSimpleDequeue ==
    /\ IsSimple
    /\ dispatch.pc = "drain"
    /\ admitted < EndlessCap
    /\ \E task \in EndlessTasks :
          LET r == Simple_DrainQueuedTask(s, <<task>>, admitted)
          IN  /\ s' = r.s
              /\ admitted' = admitted + r.admitted
              /\ ret' = [ret EXCEPT !.count = @ + r.count,
                                    !.dequeued = @ + 1]
    /\ UNCHANGED <<mode, g, selected, strategy>>
    /\ UNCHANGED background

\* the loop of SimplePlugin asks the source, which signals that it is empty:
\* the call returns count
EndlessEmpty ==
    /\ IsSimple
    /\ dispatch.pc = "drain"
    /\ dispatch' = [dispatch EXCEPT !.pc = "idle"]
    /\ ret' = [ret EXCEPT !.op = "drain"]
    /\ UNCHANGED <<mode, s, g, admitted, selected, strategy>>
    /\ UNCHANGED <<refresh, ctx, ticker, strategyMu, poolMu, observer, registry, inst>>

\* one step of the call of the dispatch goroutine on the GthulhuPlugin
EndlessGthulhuDequeue ==
    GthulhuDrainStep(IF admitted < EndlessCap THEN EndlessTasks ELSE {})

\* the second goroutine calls DrainQueuedTask on the GthulhuPlugin
EndlessObserverCall ==
    /\ mode = "gthulhu"
    /\ observer.pc = "idle"
    /\ observer' = DrainCalled(g)
    /\ UNCHANGED <<mode, s, g, admitted, selected, strategy, ret>>
    /\ UNCHANGED <<refresh, ctx, ticker, strategyMu, poolMu, dispatch, registry, inst>>

\* one step of the call of the second goroutine; the QueuedTask variables of
\* its calls have addresses of their own
EndlessObserverStep ==
    /\ observer.pc \in DrainPlaces
    /\ \E next \in IF observer.pc # "dequeue" THEN {NilQueuedTask}
                   ELSE Handed(IF admitted < EndlessCap THEN EndlessTasks ELSE {}) :
          LET r == drainQueuedTask(g, observer, next, EndlessCap + admitted + 1)
          IN  /\ g' = r.g
              /\ admitted' = IF r.inserted THEN admitted + 1 ELSE admitted
              /\ observer' = IF r.out = "step" THEN r.c
                             ELSE [NoDispatch EXCEPT !.pc = "returned"]
    /\ UNCHANGED <<mode, s, selected, strategy, ret>>
    /\ UNCHANGED <<refresh, ctx, ticker, strategyMu, poolMu, dispatch, registry, inst>>

\* between two calls of DrainQueuedTask of the dispatch goroutine,
\* SelectQueuedTask
EndlessSelect ==
    /\ Idle
    /\ \/ SimpleSelect
       \/ GthulhuSelect

EndlessNext ==
    \/ EndlessBegin
    \/ EndlessSimpleDequeue
    \/ EndlessEmpty
    \/ GthulhuDrainCall
    \/ EndlessGthulhuDequeue
    \/ EndlessObserverCall
    \/ EndlessObserverStep
    \/ EndlessSelect

SpecEndless == EndlessInit /\ [][EndlessNext]_vars

----------------------------------------------------------------------------
(* updatedEnqueueTask of GthulhuPlugin on the whole range of the uint64      *)
(* fields it reads.  The call is taken one step at a time: the lookup under  *)
(* g.strategyMu, then the update of g.minVruntime, the local minimum and the *)
(* assignments of t.Vtime, which hold no lock; UpdateStrategyMap of another  *)
(* goroutine falls between the steps.  In this specification ret holds the   *)
(* last call: the instance and the task before it, the task after it, and    *)
(* whether the lookup found a strategy.                                      *)

AdmitVtimes == {0, 1, 6000000, Modulus - 1}

\* StartTs and StopTs of a task: a run of 1000ns, a task whose StopTs is
\* the smaller, and the longest run
AdmitRuns == { <<1000, 2000>>, <<2000, 1000>>, <<0, Modulus - 1>> }

AdmitWeights == {1, 100, 10000}

AdmitTasks ==
    { SourceTask(1, v, r[1], r[2], w) :
         v \in AdmitVtimes, r \in AdmitRuns, w \in AdmitWeights }

AdmitInit ==
    /\ mode = "gthulhu"
    /\ s = NewSimplePlugin(FALSE)
    /\ \E v \in AdmitVtimes : g = [NewGthulhuPlugin(0, 0) EXCEPT !.minVruntime = v]
    /\ admitted = 0
    /\ selected = <<>>
    /\ strategy = NoStrategy
    /\ ret = [op |-> "new"]
    /\ Alone

\* the strategy lists another goroutine gives UpdateStrategyMap
AdmitStrategyLists ==
    { <<>>, <<[Priority |-> FALSE, ExecutionTime |-> 2000000, PID |-> 1]>>,
      <<[Priority |-> TRUE, ExecutionTime |-> 2000000, PID |-> 1]>> }

\* the places of a call of updatedEnqueueTask its goroutine moves on from
AdmitPlaces == {"lookup", "clock", "local", "vtime"}

\* updatedEnqueueTask(t) is called: g and task are, for the history, the
\* instance and the task at the call
AdmitCall ==
    /\ Running
    /\ Idle
    /\ \E task \in AdmitTasks :
          dispatch' = [pc |-> "lookup", count |-> 0, newQueuedTask |-> task,
                       seen |-> <<>>, minVruntimeLocal |-> 0, t |-> ZeroTask,
                       before |-> g.taskPoolCount, dequeued |-> 0,
                       g |-> g, task |-> task]
    /\ ret' = [op |-> "called"]
    /\ UNCHANGED <<mode, s, g, admitted, selected, strategy>>
    /\ UNCHANGED <<refresh, ctx, ticker, strategyMu, poolMu, observer, registry, inst>>

\* one step of the call in progress; after the lookup that found a strategy
\* and after the assignments of t.Vtime the call returns 0
AdmitEnqueue ==
    /\ dispatch.pc \in AdmitPlaces
    /\ dispatch.pc = "lookup" => MayRead
    /\ LET r == drainQueuedTask(g, dispatch, NilQueuedTask, 0)
           returned == r.out = "panic" \/ r.c.pc \notin AdmitPlaces
       IN  /\ g' = r.g
           /\ dispatch' = IF returned THEN NoDispatch ELSE r.c
           /\ ret' = IF returned
                     THEN [op |-> IF r.out = "panic" THEN "panic" ELSE "enqueue",
                           g |-> dispatch.g, before |-> dispatch.task,
                           after |-> r.c.newQueuedTask,
                           applied |-> SeenStrategy(r.c)]
                     ELSE ret
    /\ UNCHANGED <<mode, s, admitted, selected, strategy>>
    /\ UNCHANGED <<refresh, ctx, ticker, strategyMu, poolMu, observer, registry, inst>>

\* UpdateStrategyMap, called by another goroutine
AdmitUpdateStrategyMap ==
    /\ Running
    /\ \E strategies \in AdmitStrategyLists :
          /\ StrategyMapOf(strategies) # g.strategyMap
          /\ g' = UpdateStrategyMap(g, strategies)
    /\ UNCHANGED <<mode, s, admitted, selected, strategy, ret>>
    /\ UNCHANGED background

AdmitNext ==
    \/ AdmitCall
    \/ AdmitEnqueue
    \/ AdmitUpdateStrategyMap

SpecAdmit == AdmitInit /\ [][AdmitNext]_vars

----------------------------------------------------------------------------
(* Properties *)

\* the lexicographic order of keys <<k1, k2, k3>>
KeyBefore(a, b) ==
    \/ a[1] < b[1]
    \/ a[1] = b[1] /\ a[2] < b[2]
    \/ a[1] = b[1] /\ a[2] = b[2] /\ a[3] < b[3]

\* the key of an entry of SimplePlugin's pool
SimpleKey(e) == <<e.VTime, e.Timestamp, e.QueuedTask.Pid>>

\* the key of an entry of GthulhuPlugin's heap
HeapKey(e) == <<e.Deadline, e.Timestamp, e.QueuedTask.Pid>>

\* the address of the i-th resident task (i from 1) of the instance in use
ResidentAddr(i) ==
    IF IsSimple THEN s.taskPool[i].QueuedTask.addr
    ELSE g.taskPool[i - 1].QueuedTask.addr

ResidentAddrs == { ResidentAddr(i) : i \in 1..GetPoolCount }

\* the entries of a heap, with their multiplicities
ResidentBag(gp) ==
    LET held == { gp.taskPool[i] : i \in 0..(gp.taskPoolCount - 1) }
    IN  [e \in held |->
            Cardinality({ i \in 0..(gp.taskPoolCount - 1) : gp.taskPool[i] = e })]

\* C1: a SimplePlugin in weighted-vtime mode: Select returns nil exactly when
\* the pool is empty, and otherwise removes and returns the entry no resident
\* entry precedes in the order of stored VTime, then Timestamp, then Pid.
C1_SelectReturnsLeastVTime ==
    (mode = "simple" /\ ret.op = "select") =>
        /\ (ret.task = NilQueuedTask) <=> (ret.before = 0)
        /\ ret.before > 0 =>
              /\ Len(ret.entry) = 1
              /\ ret.task.addr = ret.entry[1].QueuedTask.addr
              /\ Len(s.taskPool) = ret.before - 1
              /\ \A e \in Resident :
                    ~KeyBefore(SimpleKey(e), SimpleKey(ret.entry[1]))

\* C1 witness: Select returned a task that was admitted after a task still
\* resident, and that precedes it in the order
C1_Witness ==
    /\ mode = "simple"
    /\ ret.op = "select"
    /\ ret.before >= 2
    /\ \E e \in Resident :
          /\ KeyBefore(SimpleKey(ret.entry[1]), SimpleKey(e))
          /\ e.QueuedTask.addr < ret.task.addr

\* C2: a SimplePlugin in FIFO mode: the i-th task Select returns is the i-th
\* task Drain admitted, whatever the Vtime, StartTs and Pid of the tasks.
C2_FifoSelectsInAdmissionOrder ==
    mode = "simple-fifo" =>
        /\ \A i \in 1..Len(selected) : selected[i] = i
        /\ (ret.op = "select" /\ ret.before > 0) =>
              /\ ret.task.addr = selected[Len(selected)]
              /\ ret.task.addr = ret.entry[1].QueuedTask.addr

\* C2 witness: Select has returned two tasks, the last one while a task that
\* precedes it in the order of (VTime, Timestamp, Pid) stayed resident
C2_Witness ==
    /\ mode = "simple-fifo"
    /\ ret.op = "select"
    /\ Len(selected) >= 2
    /\ \E e \in Resident : KeyBefore(SimpleKey(e), SimpleKey(ret.entry[1]))

\* C3: the heap of GthulhuPlugin: getTaskFromPool returns nil exactly when the
\* heap is empty, and otherwise removes, and returns the task of, the entry no
\* resident entry precedes in the order of Deadline, then Timestamp, then Pid;
\* the other entries stay.
C3_PopReturnsLeastDeadline ==
    [][ ret'.op = "select" =>
          /\ (ret'.task = NilQueuedTask) <=> (g.taskPoolCount = 0)
          /\ g.taskPoolCount > 0 =>
                /\ Len(ret'.entry) = 1
                /\ ret'.task = ret'.entry[1].QueuedTask
                /\ \A i \in 0..(g.taskPoolCount - 1) :
                      ~KeyBefore(HeapKey(g.taskPool[i]), HeapKey(ret'.entry[1]))
                /\ g'.taskPoolCount = g.taskPoolCount - 1
                /\ ResidentBag(g) = ResidentBag(g') (+) SetToBag({ret'.entry[1]})
      ]_vars

\* C3 witness: a pop from a heap of five entries, deep enough for two levels
\* of sifting, that left entries behind which tie with the one removed on the
\* Deadline and on the Deadline and the Timestamp
C3_Witness ==
    /\ ret.op = "select"
    /\ ret.before >= 5
    /\ \E i, j \in 0..(g.taskPoolCount - 1) :
          /\ g.taskPool[i].Deadline = ret.entry[1].Deadline
          /\ g.taskPool[i].Timestamp > ret.entry[1].Timestamp
          /\ g.taskPool[j].Deadline = ret.entry[1].Deadline
          /\ g.taskPool[j].Timestamp = ret.entry[1].Timestamp
          /\ g.taskPool[j].QueuedTask.Pid > ret.entry[1].QueuedTask.Pid
    /\ \E i \in 0..(g.taskPoolCount - 1) :
          g.taskPool[i].Deadline > ret.entry[1].Deadline

\* C4: a GthulhuPlugin task admitted with no strategy for its Tgid: the
\* Deadline stored with it is the value updatedEnqueueTask computes and leaves
\* in the task's Vtime, the clamped weighted vtime plus
\* (StopTs - StartTs) * Weight / 100; and Select returns such a task only
\* when no such resident task has a smaller computed value.
C4_DeadlineIsWeightedVtime ==
    mode = "gthulhu" =>
        /\ \A e \in Resident :
              e.QueuedTask.addr \notin strategy.applied =>
                  e.Deadline = e.QueuedTask.Vtime
        /\ (ret.op = "select" /\ ret.before > 0
                /\ ret.task.addr \notin strategy.applied) =>
              \A e \in Resident :
                  e.QueuedTask.addr \notin strategy.applied =>
                      ~(e.QueuedTask.Vtime < ret.task.Vtime)

\* C5: a GthulhuPlugin task admitted under a priority strategy is stored with
\* the least key, 0, and no task admitted without a strategy is returned by
\* Select while it is resident.
C5_PriorityTaskSelectedFirst ==
    mode = "gthulhu" =>
        /\ \A e \in Resident :
              e.QueuedTask.addr \in strategy.priority => e.Deadline = 0
        /\ (ret.op = "select" /\ ret.before > 0
                /\ ret.task.addr \notin strategy.applied) =>
              \A e \in Resident : e.QueuedTask.addr \notin strategy.priority

\* C6: for the instance in use, of either policy and in every mode: no task
\* is resident twice or returned twice, none is both, every task admitted is
\* resident or was returned, and GetPoolCount is the number of tasks admitted
\* minus the number of tasks returned.
C6_TasksAreConserved ==
    /\ \A i, j \in 1..GetPoolCount :
          i # j => ResidentAddr(i) # ResidentAddr(j)
    /\ \A i, j \in 1..Len(selected) : i # j => selected[i] # selected[j]
    /\ ResidentAddrs \cap { selected[i] : i \in 1..Len(selected) } = {}
    /\ ResidentAddrs \cup { selected[i] : i \in 1..Len(selected) } = 1..admitted
    /\ GetPoolCount = admitted - Len(selected)

\* C6 witness: a Drain after a Select: tasks were admitted, one was returned,
\* more were admitted, and some are resident
C6_Witness ==
    /\ ret.op = "drain"
    /\ ret.count >= 1
    /\ Len(selected) >= 1
    /\ GetPoolCount >= 2

\* C7: the heap of a GthulhuPlugin never holds fewer than 0 or more than
\* taskPoolSize - 1 tasks, and Drain returns a count in that range.
C7_HeapCountWithinBound ==
    /\ g.taskPoolCount >= 0
    /\ g.taskPoolCount <= taskPoolSize - 1
    /\ (mode = "gthulhu" /\ ret.op = "drain") =>
          /\ ret.count >= 0
          /\ ret.count <= taskPoolSize - 1

\* C7 witness: a Drain that ended at the capacity check, the heap at the bound
C7_Witness ==
    /\ mode = "gthulhu"
    /\ ret.op = "drain"
    /\ ret.before < taskPoolSize - 1
    /\ g.taskPoolCount = taskPoolSize - 1

\* C8: the pool of a SimplePlugin, in either mode, never holds more than
\* taskPoolSize - 1 tasks.
C8_SimplePoolWithinBound ==
    IsSimple => Len(s.taskPool) <= taskPoolSize - 1

\* C9: Drain, of either policy, returns the number of entries the call added
\* to the pool.
C9_DrainReturnsNumberAdded ==
    ret.op = "drain" => ret.count = GetPoolCount - ret.before

\* C10: SimplePlugin: no task with Pid <= 0 is resident, and Drain returns
\* the number of tasks it added, whether or not it took such a task from the
\* source: that task is neither added nor counted.
C10_SimpleAdmitsNoInvalidPid ==
    IsSimple =>
        /\ \A e \in Resident : e.QueuedTask.Pid > 0
        /\ ret.op = "drain" =>
              /\ Len(s.taskPool) = ret.before + ret.count
              /\ ret.dequeued - ret.count \in {0, 1}

\* C10 witness: a Drain on a pool that held a task took a valid task and then
\* a task with Pid <= 0 from the source
C10_Witness ==
    /\ IsSimple
    /\ ret.op = "drain"
    /\ ret.before >= 1
    /\ ret.count >= 1
    /\ ret.dequeued = ret.count + 1

\* C11: GthulhuPlugin: no task with Pid <= 0 is resident, whether its Pid is
\* the sentinel -1, 0 or another negative number.
C11_GthulhuAdmitsNoInvalidPid ==
    mode = "gthulhu" => \A e \in Resident : e.QueuedTask.Pid > 0

\* C12: SimplePlugin, in either mode: a task with Pid <= 0 that is not the
\* end-of-source sentinel does not end Drain: when the call returns, the
\* source holds no task with Pid > 0 any more.
C12_SimpleDrainSkipsInvalidPid ==
    (IsSimple /\ ret.op = "drain") => ret.left = 0

\* C13: SimplePlugin: vtimeNow is at least 1 in every state, and no Drain,
\* Select or updateStoppingTask call decreases it.
C13_SimpleClockMonotonic ==
    /\ [](s.vtimeNow >= 1)
    /\ [][s'.vtimeNow >= s.vtimeNow]_vars

\* C13 witness: in weighted-vtime mode the clock has advanced, a second task
\* with a smaller Vtime was selected after that and then charged
C13_Witness ==
    /\ mode = "simple"
    /\ ret.op = "stop"
    /\ Len(selected) >= 2
    /\ s.vtimeNow > 1
    /\ ret.task.Vtime < s.vtimeNow

\* C14: GthulhuPlugin: no step decreases minVruntime; it changes only in a
\* Drain call, in the turn of a task that met no strategy and before that
\* task is put into the pool, and Select leaves it as it is.
C14_GthulhuClockMonotonic ==
    [][ /\ g'.minVruntime >= g.minVruntime
        /\ g'.minVruntime # g.minVruntime =>
              /\ ret.op = "draining"
              /\ dispatch.pc \in DrainPlaces \ {"check", "dequeue", "insert"}
              /\ dispatch.newQueuedTask.Tgid \notin DOMAIN dispatch.seen
              /\ g'.taskPoolCount = g.taskPoolCount
        /\ ret'.op = "select" => g'.minVruntime = g.minVruntime
      ]_vars

\* C14 witness: the clock has advanced, a task of smaller Vtime was admitted
\* after that, and Select returned a task admitted under a strategy
C14_Witness ==
    /\ mode = "gthulhu"
    /\ ret.op = "select"
    /\ ret.task.addr \in strategy.applied
    /\ g.minVruntime > 0
    /\ \E e \in Resident :
          /\ e.QueuedTask.addr \notin strategy.applied
          /\ e.QueuedTask.Vtime < g.minVruntime

\* C15: GthulhuPlugin: once Select has returned a task, minVruntime is not 0.
C15_GthulhuClockNonZeroAfterSelect ==
    (mode = "gthulhu" /\ Len(selected) >= 1) => g.minVruntime # 0

\* C16: SimplePlugin in weighted-vtime mode: when Select has returned a task,
\* vtimeNow is at least the VTime stored with the entry it removed.
C16_ClockReachesSelectedKey ==
    (mode = "simple" /\ ret.op = "select" /\ ret.before > 0) =>
        s.vtimeNow >= ret.entry[1].VTime

\* C16 witness: Select removed an entry whose key was clamped at admission,
\* to a value above the Vtime of its task
C16_Witness ==
    /\ mode = "simple"
    /\ ret.op = "select"
    /\ ret.before > 0
    /\ ret.entry[1].VTime > 1
    /\ ret.entry[1].VTime > ret.entry[1].QueuedTask.Vtime

\* C17: SimplePlugin in weighted-vtime mode: the key stored with a task Drain
\* admits is the larger of the task's Vtime and vtimeNow - sliceDefault (0 when
\* sliceDefault is the larger), or 1 when that is 0; every resident key is >= 1.
C17_StoredKeyIsClampedVtime ==
    [][ mode = "simple" =>
          \A i \in 1..Len(s'.taskPool) :
              LET e == s'.taskPool[i]
                  floor == IF s.vtimeNow > s.sliceDefault
                           THEN s.vtimeNow - s.sliceDefault ELSE 0
                  key == IF e.QueuedTask.Vtime > floor
                         THEN e.QueuedTask.Vtime ELSE floor
              IN  /\ e.VTime >= 1
                  /\ e.QueuedTask.addr > admitted =>
                        e.VTime = IF key = 0 THEN 1 ELSE key
      ]_vars

\* C17 witness: Drain admitted a task whose key is the clock less one slice,
\* above the task's Vtime
C17_Witness ==
    /\ mode = "simple"
    /\ ret.op = "drain"
    /\ ret.count >= 1
    /\ \E e \in Resident :
          /\ e.VTime = s.vtimeNow - s.sliceDefault
          /\ e.VTime > e.QueuedTask.Vtime

\* C18: SimplePlugin in weighted-vtime mode: updateStoppingTask on a task of
\* nonzero Weight never leaves the task with a Vtime smaller than it had.
C18_StoppingChargeMonotonic ==
    [][ (mode = "simple" /\ ret.op = "select" /\ ret'.op = "stop"
            /\ ret.task.Weight # 0) =>
          ret'.task.Vtime >= ret.task.Vtime
      ]_vars

\* C19: no call ends in the run-time panic of a division by a zero Weight.
C19_NoDivisionByZeroWeight == ret.op # "panic"

\* C20: SimplePlugin in FIFO mode: no Drain, Select or updateStoppingTask
\* call changes vtimeNow, and updateStoppingTask leaves the task as it is.
C20_FifoLeavesClockAndVtime ==
    [][ mode = "simple-fifo" =>
          /\ s'.vtimeNow = s.vtimeNow
          /\ (ret.op = "select" /\ ret'.op = "stop") => ret'.task = ret.task
      ]_vars

\* C20 witness: in FIFO mode a task with a Vtime above the clock was admitted,
\* returned by Select and passed to updateStoppingTask, after an earlier Select
C20_Witness ==
    /\ mode = "simple-fifo"
    /\ ret.op = "stop"
    /\ Len(selected) >= 2
    /\ ret.task.Vtime > s.vtimeNow

\* C21: DetermineTimeSlice(task) returns the ExecutionTime of the override
\* the map holds for the Pid of the task when there is one and its
\* ExecutionTime is positive, and 0 otherwise (no override for that Pid, or
\* one whose ExecutionTime is 0).
C21_TimeSliceIsOverrideExecutionTime ==
    [][(dispatch.pc = "slice" /\ dispatch'.pc = "idle") =>
          LET hit == { k \in DOMAIN g.strategyMap :
                         /\ k = dispatch.task.Pid
                         /\ g.strategyMap[k].ExecutionTime > 0 }
          IN  /\ hit # {} =>
                    \A k \in hit : dispatch'.slice = g.strategyMap[k].ExecutionTime
              /\ hit = {} => dispatch'.slice = 0]_vars

\* DetermineTimeSlice returned the execution time of an override, for a
\* thread whose process has another override
C21_Witness ==
    /\ dispatch.pc = "idle"
    /\ dispatch.slice > 0
    /\ ret.op = "select"
    /\ ret.task.Pid \in DOMAIN g.strategyMap
    /\ ret.task.Tgid \in DOMAIN g.strategyMap
    /\ ret.task.Tgid # ret.task.Pid

\* the entries of a set of strategies, keyed by PID
EntriesByPID(list) ==
    [pid \in { list[i].PID : i \in 1..Len(list) } |->
        list[CHOOSE i \in 1..Len(list) :
                /\ list[i].PID = pid
                /\ \A j \in (i + 1)..Len(list) : list[j].PID # pid]]

\* C22: when the refresh goroutine is done with a successful fetch that
\* returned the set S of strategies, empty or not, the map holds the entries
\* of S keyed by PID and no other entry.
C22_MapIsExactlyTheFetchedSet ==
    [][/\ (refresh.pc = "swap" /\ refresh'.pc = "select") =>
              g'.strategyMap = EntriesByPID(refresh.fetched)
       /\ (refresh.pc = "fetching" /\ refresh'.last = "null") =>
              DOMAIN g'.strategyMap = {}]_vars

\* C23: at any moment of UpdateStrategyMap the map a reader finds under the
\* read lock is the whole map of before the call or the whole map of the
\* list given to the call; and no reader holds the lock with the writer.
C23_ReadersSeeWholeSnapshot ==
    /\ g.strategyMap \in
          {refresh.old} \cup
             (IF refresh.pc \in {"update", "swap"}
              THEN {StrategyMapOf(refresh.fetched)} ELSE {})
    /\ strategyMu.readers # {} => strategyMu.writer = "none"

\* DetermineTimeSlice holds the read lock while UpdateStrategyMap has
\* filled a part of the new map, the map in use holding other entries
C23_Witness ==
    /\ dispatch.pc = "slice"
    /\ refresh.pc = "update"
    /\ refresh.strategies # <<>>
    /\ DOMAIN refresh.newMap # {}
    /\ DOMAIN refresh.old # {}
    /\ DOMAIN refresh.old # DOMAIN StrategyMapOf(refresh.fetched)

\* C24: after a fetch that failed the map is the one of before, the
\* goroutine is at its select (or has returned, the context cancelled), and
\* a tick in the channel of the ticker starts a fetch.
C24_FailedFetchKeepsMapAndLoop ==
    refresh.last = "failed" =>
        /\ g.strategyMap = refresh.old
        /\ refresh.pc \in {"select", "done"}
        /\ refresh.pc = "done" => ctx.done
        /\ (refresh.pc = "select" /\ ticker.C = 1) => ENABLED RefreshTick

\* a fetch failed with strategies in the map, and the next tick is there
C24_Witness ==
    /\ refresh.last = "failed"
    /\ refresh.pc = "select"
    /\ ticker.C = 1
    /\ ~ctx.done
    /\ DOMAIN g.strategyMap # {}

\* C25: with the context cancelled the refresh goroutine starts no fetch.
C25_NoFetchOnceCancelled ==
    [][ctx.done => ~(refresh.pc # "fetching" /\ refresh'.pc = "fetching")]_vars

\* C26: once the context is cancelled the refresh goroutine returns, and it
\* has stopped its ticker when it has returned.
C26_RefreshStopsAfterCancel ==
    /\ ctx.done ~> (refresh.pc = "done")
    /\ [](refresh.pc = "done" => ticker.stopped)

\* the goroutine has returned after a cancellation that came during a fetch
\* whose strategies it still put in the map
C26_Witness ==
    /\ refresh.pc = "done"
    /\ ctx.done
    /\ ticker.stopped
    /\ DOMAIN g.strategyMap # {}

\* C27: during a fetch the refresh goroutine holds neither lock, and the
\* calls of the dispatch loop go on: Drain, Select and DetermineTimeSlice
\* can each take their next step.
C27_FetchHoldsNoLock ==
    refresh.pc = "fetching" =>
        /\ strategyMu.writer # "refresh"
        /\ "refresh" \notin strategyMu.readers
        /\ poolMu # "refresh"
        /\ (Running /\ Idle) => (ENABLED GthulhuDrainCall /\ ENABLED GthulhuSelect)
        /\ (Running /\ dispatch.pc \in DrainPlaces) => ENABLED FetchDrain
        /\ (Running /\ Idle /\ ret.op = "select" /\ ret.task # NilQueuedTask) =>
              ENABLED SliceRLock
        /\ dispatch.pc = "slice" => ENABLED SliceRead

\* DetermineTimeSlice is inside its lookup during a fetch started by a tick,
\* after a Drain and a Select
C27_Witness ==
    /\ refresh.pc = "fetching"
    /\ DOMAIN g.strategyMap # {}
    /\ dispatch.pc = "slice"
    /\ selected # <<>>

\* C28: no read of the resident count by GetPoolCount meets a write of it:
\* the call is never made while another goroutine is inside the section
\* of insertTaskToPool or getTaskFromPool that g.poolMu guards.
C28_PoolCountReadUnderLock ==
    observer.op = "read" => observer.during # "dispatch"

\* C29: a call on one instance (DrainQueuedTask, SelectQueuedTask,
\* UpdateStrategyMap, SetSchedulerConfig, SetMode, SetSliceDefault) leaves
\* every other instance as it was: what its pointer refers to in memory
\* (its pool and the count of it, its clock, its strategy map and its
\* configuration) reads after the call as it read before, and so do its
\* pointer and the call its own dispatch goroutine is in.  A call of a
\* function of the package gthulhu leaves every instance so.
C29_CallsLeaveOtherInstances ==
    [][\A j \in Instances :
          j # ret'.on => /\ View(inst', j) = View(inst, j)
                         /\ inst'.plugin[j] = inst.plugin[j]]_vars

\* two instances of one policy, created under different configurations,
\* each with a struct, a pool and a map of its own, none of them the
\* package's: the last call was on the first, which has admitted a task
\* and had it selected, while the second holds a task and strategies the
\* first has not, and the package holds a task and strategies of its own
C29_Witness ==
    /\ ret.on = 1
    /\ inst.plugin[1].mode = "gthulhu"
    /\ inst.plugin[2].mode = "gthulhu"
    /\ inst.plugin[1].ref # inst.plugin[2].ref
    /\ inst.heap[inst.plugin[1].ref].taskPool
          \notin {inst.heap[inst.plugin[2].ref].taskPool,
                  inst.heap[PackageVars.addr].taskPool}
    /\ inst.heap[inst.plugin[1].ref].strategyMap
          \notin {inst.heap[inst.plugin[2].ref].strategyMap,
                  inst.heap[PackageVars.addr].strategyMap}
    /\ inst.plugin[1].admitted = 1
    /\ inst.plugin[1].call.pc = "idle"
    /\ View(inst, 1).taskPoolCount = 0
    /\ View(inst, 2).taskPoolCount = 1
    /\ Load(inst.heap, PackageVars.addr).taskPoolCount = 1
    /\ DOMAIN View(inst, 1).strategyMap = {}
    /\ DOMAIN View(inst, 2).strategyMap # {}
    /\ DOMAIN Load(inst.heap, PackageVars.addr).strategyMap # {}
    /\ View(inst, 1).sliceNsDefault # View(inst, 2).sliceNsDefault
    /\ View(inst, 1).minVruntime # View(inst, 2).minVruntime

\* C30: RegisterNewPlugin returns an error and leaves pluginRegistry as it
\* was when the mode is empty, when the factory is nil, and when the mode is
\* already registered; and a NewSchedulerPlugin that follows a rejected
\* duplicate, for the same mode, invokes the factory registered first.
C30_RejectedRegistrationKeepsRegistry ==
    /\ [][(/\ ret' # ret
           /\ ret'.call.op = "register"
           /\ \/ ret'.call.mode = ""
              \/ ret'.call.factory = NilFactory
              \/ ret'.call.mode \in DOMAIN registry.pluginRegistry)
          => /\ ret'.call.err # "nil"
             /\ registry'.pluginRegistry = registry.pluginRegistry]_vars
    /\ [](( /\ ret.call.op = "create"
            /\ ret.call.mode # ""
            /\ ret.prev.op = "register"
            /\ ret.prev.mode = ret.call.mode
            /\ ret.prev.factory # NilFactory
            /\ ret.prev.err # "nil")
          => /\ ret.call.err = "nil"
             /\ ret.call.invoked = ret.call.registered)

\* a duplicate of "duplicate-mode" with another factory was rejected, and the
\* creation that followed invoked the factory registered first
C30_Witness ==
    /\ ret.call.op = "create"
    /\ ret.call.mode = "duplicate-mode"
    /\ ret.prev.op = "register"
    /\ ret.prev.mode = "duplicate-mode"
    /\ ret.prev.factory = "other"
    /\ ret.prev.err = "plugin mode is already registered"
    /\ ret.call.invoked = "factory"

\* C31: NewSchedulerPlugin returns an error and calls no constructor when
\* config is nil or config.Mode is not registered; otherwise it calls the
\* constructor registered under config.Mode once, with the context and the
\* config it was given, and what it returns is what that constructor
\* returned.  Registered is what the map held when the call read it
\* (ret.registry): a registration may return before the call does.
C31_CreateInvokesRegisteredConstructor ==
    ret.op = "create" =>
        IF ret.config.isNil \/ ret.config.Mode \notin DOMAIN ret.registry
        THEN /\ ret.calls = <<>>
             /\ ret.kind = "return"
             /\ ret.err # "nil"
             /\ ret.instance = NilInstance
        ELSE LET factory == ret.registry[ret.config.Mode]
                 f == Invoke(factory, ret.ctx, ret.config)
             IN  /\ ret.calls = << [factory |-> factory, ctx |-> ret.ctx,
                                    config |-> ret.config] >>
                 /\ ret.kind = f.kind
                 /\ ret.instance = f.instance
                 /\ ret.err = f.err

\* the constructor registered for "test-plugin" returned an error, which the
\* creation returned; the context given was a cancelled one
C31_Witness ==
    /\ ret.op = "create"
    /\ ret.config.Mode = "test-plugin"
    /\ ret.ctx.done
    /\ Len(ret.calls) = 1
    /\ ret.calls[1].factory = "failing"
    /\ ret.err = "factory error"
    /\ ret.instance = NilInstance

\* C34: creating "gthulhu" with a config that sets the mode and the slices
\* only (empty APIConfig, Interval 0) returns a nil error and an instance
\* whose pool count is 0; it does not panic.
C34_GthulhuCreationWithoutAPIReturns ==
    ( /\ ret.op = "create"
      /\ ~ret.config.isNil
      /\ ret.config.Mode = "gthulhu"
      /\ ret.config.APIConfig = EmptyAPIConfig )
    => /\ ret.kind = "return"
       /\ ret.err = "nil"
       /\ ret.instance.type = "gthulhu"
       /\ ret.instance.p.taskPoolCount = 0

\* the number of times a mode occurs in a slice of modes
Occurrences(modes, m) == Cardinality({ i \in 1..Len(modes) : modes[i] = m })

\* C33: in every reachable state of the registry, whatever slice
\* GetRegisteredModes returns holds once each mode for which a
\* RegisterNewPlugin has succeeded (registry.first records them, since the
\* registry was last cleared, and as the snapshot had them once it is
\* restored), and no other mode.
C33_ListIsTheRegisteredModes ==
    \A modes \in GetRegisteredModes(registry.pluginRegistry) :
       /\ \A m \in DOMAIN registry.first : Occurrences(modes, m) = 1
       /\ \A i \in 1..Len(modes) : modes[i] \in DOMAIN registry.first

\* the modes were listed after a rejected duplicate of "duplicate-mode", with
\* the modes of init and one more registered
C33_Witness ==
    /\ ret.call.op = "list"
    /\ ret.prev.op = "register"
    /\ ret.prev.mode = "duplicate-mode"
    /\ ret.prev.err = "plugin mode is already registered"
    /\ Len(ret.call.modes) = 4
    /\ Occurrences(ret.call.modes, "duplicate-mode") = 1
    /\ ret.call.modes[1] = "simple-fifo"

\* the calls in progress: goroutine and depth in its stack
ConcFrames == { <<t, i>> \in Callers \X {1, 2} : i <= Len(ret[t]) }

\* C32: the concurrent calls of the registry have the results of a
\* sequential order that respects real time.  For each mode one call at most
\* has stored a factory and the map holds it; the factory of a registration
\* that returned nil stays in the map; a registration is rejected only when
\* another call has registered its mode, so registrations of distinct modes
\* all succeed and of those of one mode exactly one; a NewSchedulerPlugin
\* that started after a registration of its mode returned nil finds that
\* factory; GetRegisteredModes returns the modes in the map.
C32_RegistryCallsAreLinearizable ==
    /\ \A m \in DOMAIN registry.wins :
          registry.wins[m] = IF m \in DOMAIN registry.pluginRegistry THEN 1 ELSE 0
    /\ \A m \in DOMAIN registry.returned :
          /\ m \in DOMAIN registry.pluginRegistry
          /\ registry.pluginRegistry[m] = registry.returned[m]
    /\ \A c \in ConcFrames :
          LET f == ret[c[1]][c[2]]
          IN  /\ (f.op = "register" /\ f.pc = "unlock") =>
                    IF f.err = "nil"
                    THEN /\ f.mode \in DOMAIN registry.pluginRegistry
                         /\ registry.pluginRegistry[f.mode] = f.factory
                    ELSE /\ f.mode \in DOMAIN registry.pluginRegistry
                         /\ registry.wins[f.mode] = 1
              /\ (f.op = "create" /\ f.pc \notin {"start", "rlocked"}
                                  /\ f.mode \in DOMAIN f.saw) =>
                    /\ f.err = "nil"
                    /\ f.factory = f.saw[f.mode]
              /\ (f.op = "list" /\ f.pc = "runlock") =>
                    f.modes = DOMAIN registry.pluginRegistry

\* g2 registered "concurrent-mode-0" again and was rejected, while g1, which
\* began a creation after the first registration had returned, is about to
\* run the constructor registered first
C32_Witness ==
    /\ InCall("g2", "register", "unlock")
    /\ Top(ret["g2"]).mode = "concurrent-mode-0"
    /\ Top(ret["g2"]).factory = "registering"
    /\ Top(ret["g2"]).err = "plugin mode is already registered"
    /\ InCall("g1", "create", "factory")
    /\ Top(ret["g1"]).mode = "concurrent-mode-0"
    /\ "concurrent-mode-0" \in DOMAIN Top(ret["g1"]).saw
    /\ Top(ret["g1"]).factory = "factory"
    /\ "concurrent-mode-1" \in DOMAIN registry.pluginRegistry

\* the positions at which a call holds registryMutex
Critical == {"locked", "store", "unlock", "rlocked", "runlock"}

Holds(t) ==
    \/ registry.registryMutex.writer = t
    \/ t \in registry.registryMutex.readers

\* a goroutine that waits for nothing but registryMutex, or for nothing at all
Waiting(t) == ret[t] = <<>> \/ Top(ret[t]).pc \in {"start", "blocked"}

\* C39: NewSchedulerPlugin does not hold registryMutex while the constructor
\* runs.  A goroutine holds the lock only inside the critical section of its
\* current call, so not in a constructor and not when the constructor begins
\* a call of its own; and when the other goroutines are blocked in a
\* constructor or wait themselves, a call that wants the lock gets it.
C39_ConstructorRunsWithoutRegistryLock ==
    \A t \in Callers :
       /\ Holds(t) => ret[t] # <<>> /\ Top(ret[t]).pc \in Critical
       /\ ( /\ ret[t] # <<>>
            /\ Top(ret[t]).pc = "start"
            /\ \A u \in Callers \ {t} : Waiting(u) )
          => IF Top(ret[t]).op = "register"
             THEN ENABLED ConcLock(t)
             ELSE ENABLED ConcRLock(t)

\* g1 is blocked in a constructor while the constructor that g2 runs has
\* registered a mode of its own and is about to return from that call
C39_Witness ==
    /\ InCall("g1", "create", "blocked")
    /\ Len(ret["g2"]) = 2
    /\ ret["g2"][1].pc = "constructor"
    /\ InCall("g2", "register", "unlock")
    /\ Top(ret["g2"]).err = "nil"
    /\ NestedMode \in DOMAIN registry.pluginRegistry

\* C35: SelectCPU of SimplePlugin returns the CPU that DefaultSelectCPU of the
\* source chooses for the task, and a nil error.
C35_SimpleSelectCPUDelegates ==
    ret.call.op = "cpu" =>
        /\ ret.call.err = "nil"
        /\ ret.call.default.err = "nil" => ret.call.cpu = ret.call.default.cpu

\* C36: DetermineTimeSlice of SimplePlugin returns the slice configured last
\* (by SetSliceDefault, or by a positive SliceNsDefault at creation), and the
\* built-in default when none was; whatever the task and the number of
\* waiting tasks.
C36_SimpleSliceIsConfiguredDefault ==
    ret.call.op = "slice" => ret.call.value = ret.configured

\* the slice was asked for a task while another waited, after SetSliceDefault
\* had set 10ms
C36_Witness ==
    /\ ret.call.op = "slice"
    /\ ret.call.waiting >= 1
    /\ ret.call.task.Vtime = 6000000
    /\ ret.configured = 10000 * 1000
    /\ ret.call.value = 10000 * 1000
    /\ \E i \in 1..Len(s.taskPool) : s.taskPool[i].QueuedTask.Vtime = 0

\* C38: with fifoMode false (after SetMode(false) too), SelectQueuedTask
\* returns the resident entry that no resident entry precedes in the order
\* of (VTime, Timestamp, Pid), also when entries were admitted in FIFO mode.
C38_SelectAfterSetModeReturnsLeast ==
    [][(/\ ret'.call.op = "select"
        /\ ~s.fifoMode
        /\ Len(ret'.call.entry) = 1
        /\ Len(s'.taskPool) < Len(s.taskPool))
       => \A i \in 1..Len(s.taskPool) :
             ~KeyBefore(SimpleKey(s.taskPool[i]), SimpleKey(ret'.call.entry[1]))]_vars

\* C37: a DrainQueuedTask call takes from the source at most as many tasks
\* as the pool has room for (taskPoolSize - 1), on SimplePlugin and on
\* GthulhuPlugin, also when the source never signals that it is empty: the
\* call ends.
C37_DrainDequeuesWithinCapacity ==
    /\ ret.op \in {"draining", "drain"} => ret.dequeued <= taskPoolSize - 1
    /\ dispatch.pc \in DrainPlaces => dispatch.dequeued <= taskPoolSize - 1
    /\ observer.pc \in DrainPlaces => observer.dequeued <= taskPoolSize - 1

\* the Vtime a task without an override has before its run is charged, in
\* the integers: gp is the instance and t the task before the call
AdmitBase(gp, t) ==
    LET minVruntime == IF gp.minVruntime < t.Vtime THEN t.Vtime ELSE gp.minVruntime
        minVruntimeLocal == IF minVruntime > gp.sliceNsDefault
                            THEN minVruntime - gp.sliceNsDefault ELSE 0
    IN  IF t.Vtime = 0
        THEN minVruntimeLocal + (gp.sliceNsDefault * 100) \div t.Weight
        ELSE IF t.Vtime < minVruntimeLocal THEN minVruntimeLocal ELSE t.Vtime

\* C40: the admission arithmetic of GthulhuPlugin for a task without an
\* override does not wrap: StopTs - StartTs is not negative, its product with
\* Weight and the sum of the quotient and Vtime stay below the modulus of
\* the unsigned word, and the Vtime stored is the value in the integers.
C40_AdmissionArithmeticDoesNotWrap ==
    (ret.op = "enqueue" /\ ~ret.applied) =>
        LET t == ret.before
            run == t.StopTs - t.StartTs
        IN  /\ run >= 0
            /\ run <= (Modulus - 1) \div t.Weight
            /\ AdmitBase(ret.g, t) + (run * t.Weight) \div 100 <= Modulus - 1
            /\ ret.after.Vtime = AdmitBase(ret.g, t) + (run * t.Weight) \div 100

====
